---- MODULE Spec2Model ----
(***************************************************************************)
(* inkwell-mcp: the stdio transport (local/stdio.ts), the JSON-RPC         *)
(* dispatcher (mcp.ts) and the tool handlers they drive.                   *)
(*                                                                         *)
(* stdin is a sequence of UTF-16 code units (one-character strings).  One  *)
(* action is one macrotask of the Node event loop together with the        *)
(* microtasks it schedules: a 'data' event, or the completion of an I/O    *)
(* operation a tool handler awaits.                                        *)
(***************************************************************************)
EXTENDS Integers, Sequences, FiniteSets, TLC

(***************************************************************************)
(* Bounds                                                                  *)
(***************************************************************************)
\* number of messages in a multi-message stdin stream
MaxMsgs == 2
\* number of units of the largest chunk that ends inside a frame
MaxChunk == 2
\* number of units the buffer holds at most after a chunk that ends inside
\* the last frame of a stream of several messages
MaxPartial == 24
\* rows a table holds at most
MaxRows == 2
\* runs of migrate() on one database file
MaxRuns == 2
\* calls of save_source made by one client
MaxSaves == 3
\* articles stored in the table that list_articles reads
MaxArticles == 51
\* filters in a list, and columns in a patch, handed to the adapter
MaxFilters == 2

(***************************************************************************)
(* JavaScript string primitives used by the transport                      *)
(***************************************************************************)
Min(S) == CHOOSE m \in S : \A n \in S : m <= n
Max(S) == CHOOSE m \in S : \A n \in S : m >= n

\* The UTF-16 code units of a string literal of the source
Chars(s) == [i \in 1..Len(s) |-> SubSeq(s, i, i)]

\* String.prototype.indexOf: 0-based index of the first occurrence, or -1
indexOf(s, pat) ==
  LET hits == {i \in 0..(Len(s) - Len(pat)) : SubSeq(s, i + 1, i + Len(pat)) = pat}
  IN IF hits = {} THEN -1 ELSE Min(hits)

\* String.prototype.slice(a, b) for 0 <= a: 0-based, end exclusive, clamped
slice(s, a, b) == SubSeq(s, a + 1, IF b < Len(s) THEN b ELSE Len(s))

\* String.prototype.slice(a)
sliceFrom(s, a) == SubSeq(s, a + 1, Len(s))

WhiteSpace == {" ", "\t", "\r", "\n"}
Digit == {"0", "1", "2", "3", "4", "5", "6", "7", "8", "9"}

\* a trim that leaves the string as it is
untrimmed(s) == s

\* String.prototype.trim
trim(s) ==
  LET keep == {i \in 1..Len(s) : s[i] \notin WhiteSpace}
  IN IF keep = {} THEN <<>> ELSE SubSeq(s, Min(keep), Max(keep))

UpperToLower ==
  [A |-> "a", B |-> "b", C |-> "c", D |-> "d", E |-> "e", F |-> "f", G |-> "g",
   H |-> "h", I |-> "i", J |-> "j", K |-> "k", L |-> "l", M |-> "m", N |-> "n",
   O |-> "o", P |-> "p", Q |-> "q", R |-> "r", S |-> "s", T |-> "t", U |-> "u",
   V |-> "v", W |-> "w", X |-> "x", Y |-> "y", Z |-> "z"]

toLowerCase(c) == IF c \in DOMAIN UpperToLower THEN UpperToLower[c] ELSE c

DigitValue ==
  [c \in Digit |-> CASE c = "0" -> 0 [] c = "1" -> 1 [] c = "2" -> 2 [] c = "3" -> 3
                     [] c = "4" -> 4 [] c = "5" -> 5 [] c = "6" -> 6 [] c = "7" -> 7
                     [] c = "8" -> 8 [] c = "9" -> 9]

\* parseInt(digits, 10) on a non-empty run of decimal digits
RECURSIVE parseInt(_)
parseInt(ds) ==
  IF ds = <<>> THEN 0
  ELSE 10 * parseInt(SubSeq(ds, 1, Len(ds) - 1)) + DigitValue[ds[Len(ds)]]

CRLFCRLF == <<"\r", "\n", "\r", "\n">>
LF == <<"\n">>
ContentLengthName == <<"c","o","n","t","e","n","t","-","l","e","n","g","t","h",":">>

\* header.match(/Content-Length:\s*(\d+)/i): the captured digits of the
\* leftmost match, or <<>> when the regular expression does not match.
matchContentLength(header) ==
  LET n == Len(ContentLengthName)
      lower == [i \in 1..Len(header) |-> toLowerCase(header[i])]
      \* 1-based position of the first non-whitespace unit at or after j
      skipWs(j) ==
        LET stop == {k \in j..Len(header) : header[k] \notin WhiteSpace}
        IN IF stop = {} THEN Len(header) + 1 ELSE Min(stop)
      digitsAt(k) == k <= Len(header) /\ header[k] \in Digit
      starts == {i \in 0..(Len(header) - n) :
                   /\ SubSeq(lower, i + 1, i + n) = ContentLengthName
                   /\ digitsAt(skipWs(i + n + 1))}
  IN IF starts = {} THEN <<>>
     ELSE LET first == skipWs(Min(starts) + n + 1)
              nonDigit == {k \in first..Len(header) : header[k] \notin Digit}
              last == IF nonDigit = {} THEN Len(header) ELSE Min(nonDigit) - 1
          IN SubSeq(header, first, last)

(***************************************************************************)
(* processBuffer: the synchronous part of one pass of the drain loop, from *)
(* the loop head to the next call of handleMessage or to the return.       *)
(*   kind "message": body was sliced out and is handed to handleMessage    *)
(*   kind "return" : the loop ended (buffer empty or incomplete)           *)
(* buffer is the shared buffer as the pass leaves it.                      *)
(***************************************************************************)
RECURSIVE processBuffer(_)
RECURSIVE processBufferFallback(_)
\* a processBuffer that applies the line-delimited fallback to a frame whose
\* body has not arrived in full
processBufferFallback(buf) ==
  IF Len(buf) = 0 THEN [kind |-> "return", body |-> <<>>, buffer |-> buf]
  ELSE
    LET headerEnd == indexOf(buf, CRLFCRLF)
        header == slice(buf, 0, headerEnd)
        match == IF headerEnd # -1 THEN matchContentLength(header) ELSE <<>>
    IN IF headerEnd # -1 /\ match # <<>> THEN
         LET contentLength == parseInt(match)
             bodyStart == headerEnd + 4
             available == Len(buf) - bodyStart
         IN IF available < contentLength
              THEN LET lineEnd == indexOf(buf, LF)
                   IN [kind |-> "message", body |-> trim(slice(buf, 0, lineEnd)),
                       buffer |-> sliceFrom(buf, lineEnd + 1)]
              ELSE [kind |-> "message",
                    body |-> slice(buf, bodyStart, bodyStart + contentLength),
                    buffer |-> sliceFrom(buf, bodyStart + contentLength)]
       ELSE
         LET lineEnd == indexOf(buf, LF)
         IN IF lineEnd = -1
              THEN [kind |-> "return", body |-> <<>>, buffer |-> buf]
              ELSE LET line == trim(slice(buf, 0, lineEnd))
                       rest == sliceFrom(buf, lineEnd + 1)
                   IN IF line # <<>>
                        THEN [kind |-> "message", body |-> line, buffer |-> rest]
                        ELSE processBufferFallback(rest)

processBuffer(buf) ==
  IF Len(buf) = 0 THEN [kind |-> "return", body |-> <<>>, buffer |-> buf]
  ELSE
    LET headerEnd == indexOf(buf, CRLFCRLF)
        header == slice(buf, 0, headerEnd)
        match == IF headerEnd # -1 THEN matchContentLength(header) ELSE <<>>
    IN IF headerEnd # -1 /\ match # <<>> THEN
         LET contentLength == parseInt(match)
             bodyStart == headerEnd + 4
             available == Len(buf) - bodyStart
         IN IF available < contentLength
              THEN [kind |-> "return", body |-> <<>>, buffer |-> buf]
              ELSE [kind |-> "message",
                    body |-> slice(buf, bodyStart, bodyStart + contentLength),
                    buffer |-> sliceFrom(buf, bodyStart + contentLength)]
       ELSE
         LET lineEnd == indexOf(buf, LF)
         IN IF lineEnd = -1
              THEN [kind |-> "return", body |-> <<>>, buffer |-> buf]
              ELSE LET line == trim(slice(buf, 0, lineEnd))
                       rest == sliceFrom(buf, lineEnd + 1)
                   IN IF line # <<>>
                        THEN [kind |-> "message", body |-> line, buffer |-> rest]
                        ELSE processBuffer(rest)

(***************************************************************************)
(* JSON values.  A string is its sequence of code units; an object is the  *)
(* ordered list of its <<key, value>> members, as in JavaScript.           *)
(***************************************************************************)
Undefined == [t |-> "undefined"]
Null == [t |-> "null"]
Bool(b) == [t |-> "boolean", v |-> b]
Num(n) == [t |-> "number", v |-> n]
Str(s) == [t |-> "string", v |-> s]
Arr(a) == [t |-> "array", v |-> a]
Obj(members) == [t |-> "object", v |-> members]

\* o.k, and o?.k when o is undefined or null
Get(o, k) ==
  IF o.t # "object" THEN Undefined
  ELSE LET hits == {i \in 1..Len(o.v) : o.v[i][1] = k}
       IN IF hits = {} THEN Undefined ELSE o.v[Max(hits)][2]

Has(o, k) == o.t = "object" /\ \E i \in 1..Len(o.v) : o.v[i][1] = k

\* a test for null and undefined only, where the source tests truthiness
NotNullish(v) == v.t \notin {"undefined", "null"}

\* JavaScript truthiness of a JSON value
Truthy(v) ==
  CASE v.t = "undefined" -> FALSE
    [] v.t = "null" -> FALSE
    [] v.t = "boolean" -> v.v
    [] v.t = "number" -> v.v # 0
    [] v.t = "string" -> v.v # <<>>
    [] OTHER -> TRUE

DigitChar == <<"0", "1", "2", "3", "4", "5", "6", "7", "8", "9">>

RECURSIVE NatText(_)
NatText(n) == IF n < 10 THEN <<DigitChar[n + 1]>>
              ELSE NatText(n \div 10) \o <<DigitChar[(n % 10) + 1]>>

\* Number.prototype.toString for an integer
numberText(n) == IF n < 0 THEN <<"-">> \o NatText(0 - n) ELSE NatText(n)

RECURSIVE Join(_, _)
Join(parts, sep) ==
  IF Len(parts) = 0 THEN <<>>
  ELSE IF Len(parts) = 1 THEN parts[1]
  ELSE LET half == Len(parts) \div 2
       IN Join(SubSeq(parts, 1, half), sep) \o sep
          \o Join(SubSeq(parts, half + 1, Len(parts)), sep)

\* the escape JSON.stringify writes for one code unit of a string
escapeUnit(c) ==
  CASE c = "\"" -> <<"\\", "\"">>
    [] c = "\\" -> <<"\\", "\\">>
    [] c = "\n" -> <<"\\", "n">>
    [] c = "\r" -> <<"\\", "r">>
    [] c = "\t" -> <<"\\", "t">>
    [] OTHER -> <<c>>

quote(s) == <<"\"">> \o Join([i \in 1..Len(s) |-> escapeUnit(s[i])], <<>>) \o <<"\"">>

Pad(n) == [i \in 1..n |-> " "]

\* JSON.stringify(v, null, indent) at nesting depth level; indent 0 is the
\* compact form of JSON.stringify(v).  Members whose value is undefined are
\* left out of objects and written as null in arrays.
RECURSIVE stringify(_, _, _)
stringify(v, indent, level) ==
  LET open(b) == IF indent = 0 THEN <<b>> ELSE <<b, "\n">> \o Pad(indent * (level + 1))
      close(b) == IF indent = 0 THEN <<b>> ELSE <<"\n">> \o Pad(indent * level) \o <<b>>
      comma == IF indent = 0 THEN <<",">> ELSE <<",", "\n">> \o Pad(indent * (level + 1))
      colon == IF indent = 0 THEN <<":">> ELSE <<":", " ">>
  IN CASE v.t = "null" -> <<"n", "u", "l", "l">>
       [] v.t = "boolean" -> IF v.v THEN <<"t", "r", "u", "e">> ELSE <<"f", "a", "l", "s", "e">>
       [] v.t = "number" -> numberText(v.v)
       [] v.t = "string" -> quote(v.v)
       [] v.t = "array" ->
            IF v.v = <<>> THEN <<"[", "]">>
            ELSE open("[")
                 \o Join([i \in 1..Len(v.v) |->
                            IF v.v[i].t = "undefined" THEN <<"n", "u", "l", "l">>
                            ELSE stringify(v.v[i], indent, level + 1)], comma)
                 \o close("]")
       [] v.t = "object" ->
            LET shown == SelectSeq(v.v, LAMBDA m : m[2].t # "undefined")
            IN IF shown = <<>> THEN <<"{", "}">>
               ELSE open("{")
                    \o Join([i \in 1..Len(shown) |->
                               quote(shown[i][1]) \o colon
                               \o stringify(shown[i][2], indent, level + 1)], comma)
                    \o close("}")

JSONStringify(v) == stringify(v, 0, 0)
JSONStringifyPretty(v) == stringify(v, 2, 0)

(***************************************************************************)
(* Storage: the two tables the modelled tool handlers write, with the      *)
(* columns, defaults and constraints of 001_core.sql and 002_editorial.sql *)
(***************************************************************************)
NoteTypes == {Chars("idea"), Chars("angle"), Chars("quote"), Chars("fact"), Chars("todo"), Chars("outline")}
NoteStatuses == {Chars("active"), Chars("used"), Chars("discarded")}
ArticleStatuses == {Chars("draft"), Chars("published"), Chars("archived")}
ArticleTypes == {Chars("edition"), Chars("analysis"), Chars("special")}

\* datetime('now'): the clock is not part of the model
Now == Chars("2026-01-01 00:00:00")

Columns ==
  [editorial_notes |-> <<Chars("id"), Chars("type"), Chars("content"), Chars("target_article"), Chars("tags"),
                         Chars("priority"), Chars("status"), Chars("created_at"), Chars("updated_at")>>,
   articles |-> <<Chars("id"), Chars("title"), Chars("subtitle"), Chars("content"), Chars("status"), Chars("type"),
                  Chars("number"), Chars("published_at"), Chars("views"), Chars("open_rate"), Chars("click_rate"),
                  Chars("substack_url"), Chars("editorial_angle"), Chars("tl_dr"), Chars("conclusion_signal"),
                  Chars("created_at"), Chars("updated_at")>>,
   editorial_sources |-> <<Chars("id"), Chars("url"), Chars("title"), Chars("type"), Chars("published_date"),
                           Chars("target_article"), Chars("description"), Chars("key_quotes"),
                           Chars("status"), Chars("used_in_article"), Chars("used_at"),
                           Chars("created_at"), Chars("updated_at")>>]

SourceTypes ==
  {Chars("article"), Chars("report"), Chars("dataset"), Chars("interview"), Chars("video"),
   Chars("podcast"), Chars("social"), Chars("other")}
SourceStatuses == {Chars("active"), Chars("inactive")}

\* DEFAULT clause of a column (NULL when it has none)
ColumnDefault(table, col) ==
  IF col \in {Chars("created_at"), Chars("updated_at")} THEN Str(Now)
  ELSE IF table = "editorial_notes" /\ col = Chars("priority") THEN Num(3)
  ELSE IF table = "editorial_notes" /\ col = Chars("status") THEN Str(Chars("active"))
  ELSE IF table = "editorial_sources" /\ col = Chars("status") THEN Str(Chars("active"))
  ELSE IF table = "articles" /\ col = Chars("status") THEN Str(Chars("draft"))
  ELSE IF table = "articles" /\ col = Chars("type") THEN Str(Chars("edition"))
  ELSE IF table = "articles" /\ col \in {Chars("views"), Chars("open_rate"), Chars("click_rate")} THEN Num(0)
  ELSE Null

IsOneOf(v, texts) == v.t = "string" /\ v.v \in texts

SqliteError(code, message) ==
  [isError |-> TRUE, value |-> Obj(<< <<Chars("message"), Str(message)>>, <<Chars("code"), Str(code)>> >>)]

NoViolation == [isError |-> FALSE, value |-> Undefined]

\* the constraint of the table that rejects the row, if any
Violation(db, table, row) ==
  LET col(c) == Get(row, c)
      sameId == /\ col(Chars("id")).t # "null"
                /\ \E i \in 1..Len(db[table]) : Get(db[table][i], Chars("id")) = col(Chars("id"))
  IN IF table = "editorial_notes" THEN
       CASE col(Chars("type")).t = "null" ->
              SqliteError(Chars("SQLITE_CONSTRAINT_NOTNULL"), Chars("NOT NULL constraint failed: editorial_notes.type"))
         [] col(Chars("content")).t = "null" ->
              SqliteError(Chars("SQLITE_CONSTRAINT_NOTNULL"), Chars("NOT NULL constraint failed: editorial_notes.content"))
         [] ~IsOneOf(col(Chars("type")), NoteTypes) ->
              SqliteError(Chars("SQLITE_CONSTRAINT_CHECK"), Chars("CHECK constraint failed: type"))
         [] ~(col(Chars("priority")).t = "number" /\ col(Chars("priority")).v \in 1..5) ->
              SqliteError(Chars("SQLITE_CONSTRAINT_CHECK"), Chars("CHECK constraint failed: priority"))
         [] ~IsOneOf(col(Chars("status")), NoteStatuses) ->
              SqliteError(Chars("SQLITE_CONSTRAINT_CHECK"), Chars("CHECK constraint failed: status"))
         [] sameId ->
              SqliteError(Chars("SQLITE_CONSTRAINT_PRIMARYKEY"), Chars("UNIQUE constraint failed: editorial_notes.id"))
         [] /\ col(Chars("target_article")).t # "null"
            /\ ~\E i \in 1..Len(db.articles) : Get(db.articles[i], Chars("id")) = col(Chars("target_article")) ->
              SqliteError(Chars("SQLITE_CONSTRAINT_FOREIGNKEY"), Chars("FOREIGN KEY constraint failed"))
         [] OTHER -> NoViolation
     ELSE IF table = "editorial_sources" THEN
       CASE col(Chars("url")).t = "null" ->
              SqliteError(Chars("SQLITE_CONSTRAINT_NOTNULL"), Chars("NOT NULL constraint failed: editorial_sources.url"))
         [] col(Chars("title")).t = "null" ->
              SqliteError(Chars("SQLITE_CONSTRAINT_NOTNULL"), Chars("NOT NULL constraint failed: editorial_sources.title"))
         [] col(Chars("type")).t # "null" /\ ~IsOneOf(col(Chars("type")), SourceTypes) ->
              SqliteError(Chars("SQLITE_CONSTRAINT_CHECK"), Chars("CHECK constraint failed: type"))
         [] ~IsOneOf(col(Chars("status")), SourceStatuses) ->
              SqliteError(Chars("SQLITE_CONSTRAINT_CHECK"), Chars("CHECK constraint failed: status"))
         [] sameId ->
              SqliteError(Chars("SQLITE_CONSTRAINT_PRIMARYKEY"), Chars("UNIQUE constraint failed: editorial_sources.id"))
         [] /\ col(Chars("target_article")).t # "null"
            /\ ~\E i \in 1..Len(db.articles) : Get(db.articles[i], Chars("id")) = col(Chars("target_article")) ->
              SqliteError(Chars("SQLITE_CONSTRAINT_FOREIGNKEY"), Chars("FOREIGN KEY constraint failed"))
         [] OTHER -> NoViolation
     ELSE
       CASE col(Chars("title")).t = "null" ->
              SqliteError(Chars("SQLITE_CONSTRAINT_NOTNULL"), Chars("NOT NULL constraint failed: articles.title"))
         [] ~IsOneOf(col(Chars("status")), ArticleStatuses) ->
              SqliteError(Chars("SQLITE_CONSTRAINT_CHECK"), Chars("CHECK constraint failed: status"))
         [] ~IsOneOf(col(Chars("type")), ArticleTypes) ->
              SqliteError(Chars("SQLITE_CONSTRAINT_CHECK"), Chars("CHECK constraint failed: type"))
         [] sameId ->
              SqliteError(Chars("SQLITE_CONSTRAINT_PRIMARYKEY"), Chars("UNIQUE constraint failed: articles.id"))
         [] /\ col(Chars("number")).t # "null"
            /\ \E i \in 1..Len(db.articles) : Get(db.articles[i], Chars("number")) = col(Chars("number")) ->
              SqliteError(Chars("SQLITE_CONSTRAINT_UNIQUE"), Chars("UNIQUE constraint failed: articles.number"))
         [] OTHER -> NoViolation

HexDigit == <<"0", "1", "2", "3", "4", "5", "6", "7", "8", "9", "a", "b", "c", "d", "e", "f">>

\* crypto.getRandomValues: the 16 random bytes an insert may draw
RandomBytes == {[i \in 1..16 |-> 0], [i \in 1..16 |-> 171]}

\* SqliteAdapter.generateId: two lowercase hex digits per byte
generateId(bytes) ==
  Join([i \in 1..Len(bytes) |->
          <<HexDigit[(bytes[i] \div 16) + 1], HexDigit[(bytes[i] % 16) + 1]>>], <<>>)

\* SqliteAdapter.serializeValue
serializeValue(val) ==
  CASE val.t \in {"null", "undefined"} -> Null
    [] val.t = "array" -> Str(JSONStringify(val))
    [] val.t = "object" -> Str(JSONStringify(val))
    [] val.t = "boolean" -> IF val.v THEN Num(1) ELSE Num(0)
    [] OTHER -> val

\* data[k] = v on a JavaScript object: replaces in place or appends the key
SetMember(o, k, v) ==
  IF Has(o, k)
    THEN Obj([i \in 1..Len(o.v) |-> IF o.v[i][1] = k THEN <<k, v>> ELSE o.v[i]])
    ELSE Obj(Append(o.v, <<k, v>>))

\* SqliteAdapter.insert: INSERT INTO table (keys) VALUES (?, ...) RETURNING *
\* Result: ok with the stored row and the new database, or the error thrown.
insert(db, table, data, bytes) ==
  LET cols == Columns[table]
      \* the statement runs: the row is stored unless a constraint rejects it
      run(row, bad) ==
        IF bad.isError
          THEN [ok |-> FALSE, error |-> bad, row |-> Undefined, db |-> db]
          ELSE [ok |-> TRUE, error |-> NoViolation, row |-> row,
                db |-> [db EXCEPT ![table] = Append(@, row)]]
      \* the row the statement would store: unnamed columns take their default
      returning(values) ==
        Obj([i \in 1..Len(cols) |->
               <<cols[i], IF Has(values, cols[i]) THEN Get(values, cols[i])
                          ELSE ColumnDefault(table, cols[i])>>])
      checked(row) == run(row, Violation(db, table, row))
      \* Object.values(data).map(v => this.serializeValue(v))
      bound(withId) ==
        checked(returning(Obj([i \in 1..Len(withId.v) |->
                                 <<withId.v[i][1], serializeValue(withId.v[i][2])>>])))
  IN bound(IF ~Truthy(Get(data, Chars("id")))
             THEN SetMember(data, Chars("id"), Str(generateId(bytes)))
             ELSE data)

\* SqliteAdapter.update with the single filter {column: 'id', op: 'eq'}:
\* UPDATE table SET k = ?, ... WHERE id = ? RETURNING *
updateById(db, table, id, data) ==
  LET patched(r) ==
        Obj([i \in 1..Len(r.v) |->
               <<r.v[i][1], IF Has(data, r.v[i][1])
                              THEN serializeValue(Get(data, r.v[i][1]))
                              ELSE r.v[i][2]>>])
  IN [db EXCEPT ![table] =
        [i \in 1..Len(@) |-> IF Get(@[i], Chars("id")) = id THEN patched(@[i]) ELSE @[i]]]

\* SqliteAdapter.raw('SELECT id FROM articles WHERE title = ? LIMIT 1', [title])
selectIdByTitle(db, title) ==
  LET hits == {i \in 1..Len(db.articles) : Get(db.articles[i], Chars("title")) = title}
  IN IF hits = {} THEN <<>>
     ELSE <<Obj(<< <<Chars("id"), Get(db.articles[Min(hits)], Chars("id"))>> >>)>>

(***************************************************************************)
(* Filters (SqliteAdapter.buildWhere) for the operators eq, neq, is and    *)
(* in.  A WHERE is the keyword and the clauses joined by AND; a clause is  *)
(* a column, an SQL operator and the parameters bound to its placeholders. *)
(***************************************************************************)
Filter(column, op, value) == [column |-> column, op |-> op, value |-> value]

Clause(column, sql, params) == [column |-> column, sql |-> sql, params |-> params]

\* the clauses and parameters that one pass of the loop of buildWhere pushes
clausesOf(f) ==
  CASE f.op = "eq" -> <<Clause(f.column, "=", <<serializeValue(f.value)>>)>>
    [] f.op = "neq" -> <<Clause(f.column, "!=", <<serializeValue(f.value)>>)>>
    [] f.op = "is" -> IF f.value.t = "null"
                        THEN <<Clause(f.column, "IS NULL", <<>>)>>
                        ELSE <<Clause(f.column, "IS", <<f.value>>)>>
    [] f.op = "in" -> IF f.value.t = "array" /\ Len(f.value.v) > 0
                        THEN <<Clause(f.column, "IN", f.value.v)>>
                        ELSE <<>>

\* SqliteAdapter.buildWhere: '' for an empty list, else 'WHERE ' and the
\* clauses joined by ' AND '
buildWhere(filters) ==
  IF Len(filters) = 0 THEN [keyword |-> FALSE, clauses |-> <<>>]
  ELSE [keyword |-> TRUE,
        clauses |-> Join([i \in 1..Len(filters) |-> clausesOf(filters[i])], <<>>)]

\* this.db.prepare(sql) rejects a WHERE that no expression follows, and an
\* UPDATE whose SET list is empty
Incomplete(where) == where.keyword /\ where.clauses = <<>>
SqlSyntaxError == SqliteError(Chars("SQLITE_ERROR"), Chars("incomplete input"))

\* a clause text that carries the text of the value of an eq filter in
\* place of its placeholder
clauseTextInline(c) ==
  CASE c.sql = "=" -> IF c.params[1].t = "string"
                        THEN c.column \o Chars(" = '") \o c.params[1].v \o <<"'">>
                        ELSE c.column \o Chars(" = ?")
    [] c.sql = "!=" -> c.column \o Chars(" != ?")
    [] c.sql = "IS NULL" -> c.column \o Chars(" IS NULL")
    [] c.sql = "IS" -> c.column \o Chars(" IS ?")
    [] c.sql = "IN" -> c.column \o Chars(" IN (")
                       \o Join([i \in 1..Len(c.params) |-> <<"?">>], Chars(", ")) \o <<")">>

\* the text that buildWhere pushes for a clause
clauseText(c) ==
  CASE c.sql = "=" -> c.column \o Chars(" = ?")
    [] c.sql = "!=" -> c.column \o Chars(" != ?")
    [] c.sql = "IS NULL" -> c.column \o Chars(" IS NULL")
    [] c.sql = "IS" -> c.column \o Chars(" IS ?")
    [] c.sql = "IN" -> c.column \o Chars(" IN (")
                       \o Join([i \in 1..Len(c.params) |-> <<"?">>], Chars(", ")) \o <<")">>

\* the { where, params } that buildWhere returns, as text and bound values
whereText(filters) ==
  LET compiled == buildWhere(filters)
  IN [where |-> IF compiled.keyword
                  THEN Chars("WHERE ")
                       \o Join([i \in 1..Len(compiled.clauses) |-> clauseText(compiled.clauses[i])],
                               Chars(" AND "))
                  ELSE <<>>,
      params |-> Join([i \in 1..Len(compiled.clauses) |-> compiled.clauses[i].params], <<>>)]

\* the SQL text and the parameter list that query (select *, no order, no
\* limit), update, delete and count hand to prepare(sql) and all(...params)
statement(op, table, filters, data) ==
  LET w == whereText(filters)
      setClauses == [i \in 1..Len(data.v) |-> data.v[i][1] \o Chars(" = ?")]
      setParams == [i \in 1..Len(data.v) |-> serializeValue(data.v[i][2])]
  IN CASE op = "query" ->
            [sql |-> trim(Chars("SELECT * FROM ") \o table \o <<" ">> \o w.where \o <<" ", " ">>),
             params |-> w.params]
       [] op = "update" ->
            [sql |-> Chars("UPDATE ") \o table \o Chars(" SET ") \o Join(setClauses, Chars(", "))
                     \o <<" ">> \o w.where \o Chars(" RETURNING *"),
             params |-> setParams \o w.params]
       [] op = "delete" ->
            [sql |-> Chars("DELETE FROM ") \o table \o <<" ">> \o w.where \o Chars(" RETURNING *"),
             params |-> w.params]
       [] op = "count" ->
            [sql |-> Chars("SELECT COUNT(*) as cnt FROM ") \o table \o <<" ">> \o w.where,
             params |-> w.params]

\* the clause is true of the row (a comparison with NULL is not)
IsTrue(row, c) ==
  LET v == Get(row, c.column)
  IN CASE c.sql = "=" -> v.t # "null" /\ c.params[1].t # "null" /\ v = c.params[1]
       [] c.sql = "!=" -> v.t # "null" /\ c.params[1].t # "null" /\ v # c.params[1]
       [] c.sql = "IS NULL" -> v.t = "null"
       [] c.sql = "IS" -> v = c.params[1]
       [] c.sql = "IN" -> v.t # "null" /\ \E p \in 1..Len(c.params) : c.params[p] = v

Selected(where, row) == \A i \in 1..Len(where.clauses) : IsTrue(row, where.clauses[i])

\* what a call of the adapter returned (value) or threw (error)
Returned(value, db) == [ok |-> TRUE, value |-> value, error |-> NoViolation, db |-> db]
Threw(error, db) == [ok |-> FALSE, value |-> Undefined, error |-> error, db |-> db]

\* the LIMIT and OFFSET clauses of buildSelect as SQLite evaluates them: no
\* clause when limit is null or undefined, no upper bound when the limit is
\* negative, and an OFFSET (only written after a LIMIT) below zero counts as 0
limitClause(hits, limit, offset) ==
  LET skipped == IF offset.t = "number" /\ offset.v > 0 THEN offset.v ELSE 0
      rest == SubSeq(hits, skipped + 1, Len(hits))
  IN IF limit.t \in {"undefined", "null"} THEN hits
     ELSE IF limit.v < 0 THEN rest
     ELSE SubSeq(rest, 1, Min({limit.v, Len(rest)}))

\* the select list of buildSelect: opts.select?.join(', ') ?? '*'
selectColumns(row, opts) ==
  IF "select" \in DOMAIN opts
    THEN Obj([i \in 1..Len(opts.select) |-> <<opts.select[i], Get(row, opts.select[i])>>])
    ELSE row

\* SqliteAdapter.query: buildSelect and prepare(sql).all(...params); limit
\* and offset are numbers or undefined (offset may be left out of opts)
query(db, opts) ==
  LET where == buildWhere(opts.filters)
      hits == SelectSeq(db[opts.table], LAMBDA r : Selected(where, r))
      offset == IF "offset" \in DOMAIN opts THEN opts.offset ELSE Undefined
  IN IF Incomplete(where) THEN Threw(SqlSyntaxError, db)
     ELSE Returned(Arr([i \in 1..Len(limitClause(hits, opts.limit, offset)) |->
                          selectColumns(limitClause(hits, opts.limit, offset)[i], opts)]), db)

\* SqliteAdapter.queryOne: query({...opts, limit: 1}), results[0] ?? null
queryOne(db, opts) ==
  LET results == query(db, [opts EXCEPT !.limit = Num(1)])
  IN IF ~results.ok THEN results
     ELSE Returned(IF Len(results.value.v) > 0 THEN results.value.v[1] ELSE Null, db)

\* SqliteAdapter.update: UPDATE table SET k = ?, ... WHERE ... RETURNING *
update(db, table, filters, data) ==
  LET where == buildWhere(filters)
      rows == db[table]
      patched(r) ==
        Obj([i \in 1..Len(r.v) |->
               <<r.v[i][1], IF Has(data, r.v[i][1])
                              THEN serializeValue(Get(data, r.v[i][1]))
                              ELSE r.v[i][2]>>])
      after == [i \in 1..Len(rows) |->
                  IF Selected(where, rows[i]) THEN patched(rows[i]) ELSE rows[i]]
      \* the constraint that the new version of row i violates, the other
      \* rows being as the statement leaves them
      bad(i) ==
        Violation([db EXCEPT ![table] = SubSeq(after, 1, i - 1)
                                         \o SubSeq(after, i + 1, Len(after))],
                  table, after[i])
      rejected == {i \in 1..Len(rows) : Selected(where, rows[i]) /\ bad(i).isError}
      hits == SelectSeq([i \in 1..Len(rows) |-> i], LAMBDA i : Selected(where, rows[i]))
  IN IF Incomplete(where) \/ Len(data.v) = 0 THEN Threw(SqlSyntaxError, db)
     ELSE IF rejected # {} THEN Threw(bad(Min(rejected)), db)
     ELSE Returned(Arr([k \in 1..Len(hits) |-> after[hits[k]]]),
                   [db EXCEPT ![table] = after])

\* SqliteAdapter.delete: DELETE FROM table WHERE ... RETURNING *
delete(db, table, filters) ==
  LET where == buildWhere(filters)
  IN IF Incomplete(where) THEN Threw(SqlSyntaxError, db)
     ELSE Returned(Arr(SelectSeq(db[table], LAMBDA r : Selected(where, r))),
                   [db EXCEPT ![table] = SelectSeq(@, LAMBDA r : ~Selected(where, r))])

\* SqliteAdapter.count: SELECT COUNT(*) as cnt FROM table WHERE ...
count(db, table, filters) ==
  LET where == buildWhere(filters)
  IN IF Incomplete(where) THEN Threw(SqlSyntaxError, db)
     ELSE Returned(Num(Len(SelectSeq(db[table], LAMBDA r : Selected(where, r)))), db)

(***************************************************************************)
(* Migrations (db/adapter.ts).  A script is the sequence of its statements,*)
(* every one a CREATE TABLE / CREATE INDEX ... IF NOT EXISTS; statement j  *)
(* of script i creates the object <<i, j>>.                                *)
(***************************************************************************)
MIGRATIONS ==
  << [name |-> Chars("001_core.sql"), statements |-> 10],
     [name |-> Chars("002_editorial.sql"), statements |-> 8],
     [name |-> Chars("003_usage.sql"), statements |-> 5] >>

\* the objects that script i creates
ScriptObjects(i) == {<<i, j>> : j \in 1..MIGRATIONS[i].statements}

(***************************************************************************)
(* Tool handlers.  A handler runs until it returns, throws or awaits an    *)
(* I/O operation; awaits of storage calls complete in the same macrotask   *)
(* (better-sqlite3 is synchronous) and are not suspension points.          *)
(***************************************************************************)
Return(v, db) == [kind |-> "return", value |-> v, db |-> db, pc |-> "done"]
Throw(e, db) == [kind |-> "throw", value |-> e, db |-> db, pc |-> "done"]
Await(pc, db) == [kind |-> "await", value |-> Undefined, db |-> db, pc |-> pc]

\* throw { code, message }
CodedError(code, message) ==
  [isError |-> FALSE,
   value |-> Obj(<< <<Chars("code"), Num(code)>>, <<Chars("message"), Str(message)>> >>)]

\* throw new TypeError(message)
PlainError(message) ==
  [isError |-> TRUE, value |-> Obj(<< <<Chars("message"), Str(message)>> >>)]

\* a requireOwner that lets every caller with a context pass
requireContext(ctx) == ctx.t # "null"

OwnerCtx == Obj(<< <<Chars("role"), Str(Chars("owner"))>> >>)
PublicCtx == Obj(<< <<Chars("role"), Str(Chars("public"))>> >>)

\* requireOwner throws exactly when this is FALSE
requireOwner(ctx) == ~(ctx.t = "null" \/ Get(ctx, Chars("role")) # Str(Chars("owner")))

Forbidden == CodedError(403, Chars("Owner access required"))

\* String(v)
String(v) ==
  CASE v.t = "string" -> v.v
    [] v.t = "number" -> numberText(v.v)
    [] v.t = "undefined" -> Chars("undefined")
    [] v.t = "null" -> Chars("null")

\* noteTools: add_note
add_note(args, ctx, db, bytes) ==
  IF ~requireOwner(ctx) THEN Throw(Forbidden, db)
  ELSE
    LET tags == Get(args, Chars("tags"))
        prio == Get(args, Chars("priority"))
        \* after await env.db.insert(...): a rejection propagates
        inserted(ins) ==
          IF ~ins.ok THEN Throw(ins.error, db)
          ELSE Return(
                 SetMember(ins.row, Chars("message"),
                   Str(Chars("Note added")
                       \o (IF Truthy(Get(ins.row, Chars("target_article")))
                             THEN Chars(" for article ")
                                  \o Get(ins.row, Chars("target_article")).v
                             ELSE Chars(" to backlog")))),
                 ins.db)
    IN inserted(insert(db, "editorial_notes",
                 Obj(<< <<Chars("type"), Str(String(Get(args, Chars("type"))))>>,
                        <<Chars("content"), Str(String(Get(args, Chars("content"))))>>,
                        <<Chars("target_article"),
                          IF Truthy(Get(args, Chars("target_article")))
                            THEN Str(String(Get(args, Chars("target_article")))) ELSE Null>>,
                        <<Chars("tags"),
                          IF tags.t = "array"
                            THEN Arr([i \in 1..Len(tags.v) |-> Str(String(tags.v[i]))])
                            ELSE Arr(<<>>)>>,
                        <<Chars("priority"),
                          IF prio.t \notin {"null", "undefined"} THEN prio ELSE Num(3)>>,
                        <<Chars("status"), Str(Chars("active"))>> >>),
                 bytes))

\* CONNECTORS of tools/import.ts
Connectors == {Chars("substack"), Chars("beehiiv"), Chars("ghost"), Chars("kit")}

\* How the request a connector call waits for ends in the model.
\*   KitConnector.validate: the API answers !res.ok, or res.ok
\*   KitConnector.import  : the fetch is rejected, or the API answers a
\*                          page of one broadcast (whose stats request
\*                          fails, which the connector tolerates)
IoResults(pc) ==
  IF pc = "validate" THEN {"not_ok", "ok"}
  ELSE {"rejected", "one"}

\* importTools: import_newsletter up to its first fetch (platform kit)
import_newsletter(args, ctx, db) ==
  IF ~requireOwner(ctx) THEN Throw(Forbidden, db)
  ELSE
    LET platform == String(Get(args, Chars("platform")))
    IN IF platform \notin Connectors
         THEN Throw(CodedError(400, Chars("Unknown platform: ") \o platform
                                    \o Chars(". Supported: substack, beehiiv, ghost, kit")), db)
       ELSE IF ~Truthy(Get(args, Chars("api_key")))
         THEN Throw(CodedError(400, Chars("Validation failed: ")
                                    \o Chars("apiKey is required (Kit API secret)")), db)
       ELSE Await("validate", db)

\* import_newsletter after connector.import() returned result: the insert loop
importArticles(args, db, fetched, errors, messages, bytes) ==
  LET title == Str(Chars("Kit weekly"))
      existing == IF fetched = 0 THEN <<>> ELSE selectIdByTitle(db, title)
      patch == Obj(<< <<Chars("updated_at"), Str(Now)>> >>)
      article ==
        Obj(<< <<Chars("title"), title>>, <<Chars("subtitle"), Null>>, <<Chars("content"), Null>>,
               <<Chars("status"), Str(Chars("published"))>>, <<Chars("type"), Str(Chars("edition"))>>,
               <<Chars("number"), Null>>, <<Chars("published_at"), Null>>, <<Chars("views"), Num(0)>>,
               <<Chars("open_rate"), Num(0)>>, <<Chars("click_rate"), Num(0)>>,
               <<Chars("substack_url"), Null>>, <<Chars("editorial_angle"), Null>> >>)
      doUpdate == fetched = 1 /\ existing # <<>> /\ Len(patch.v) > 1
      doInsert == fetched = 1 /\ existing = <<>>
      summary(created, updated, skipped) ==
        Obj(<< <<Chars("platform"), Str(String(Get(args, Chars("platform"))))>>,
               <<Chars("created"), Num(created)>>, <<Chars("updated"), Num(updated)>>,
               <<Chars("skipped"), Num(skipped)>>, <<Chars("errors"), Num(errors)>>,
               <<Chars("enrichment"),
                 IF Get(args, Chars("enrich")) # Bool(FALSE)
                   THEN Obj(<< <<Chars("articles_enriched"), Num(0)>>,
                               <<Chars("total_tags_linked"), Num(0)>>,
                               <<Chars("total_experts_linked"), Num(0)>> >>)
                   ELSE Null>>,
               <<Chars("messages"), Arr(messages)>> >>)
      \* after await env.db.insert('articles', ...): a rejection propagates
      inserted(ins) ==
        IF ins.ok THEN Return(summary(1, 0, 0), ins.db) ELSE Throw(ins.error, db)
  IN IF doInsert
       THEN inserted(insert(db, "articles", article, bytes))
     ELSE IF doUpdate
       THEN Return(summary(0, 1, 0),
                   updateById(db, "articles", Get(existing[1], Chars("id")), patch))
     ELSE Return(summary(0, 0, fetched), db)

\* import_newsletter resumed when the fetch it waits for at pc has completed
import_newsletter_resume(pc, args, io, db, bytes) ==
  LET fetchedMsg(n) == Str(Chars("Fetched ") \o numberText(n) \o Chars(" broadcasts from Kit API"))
  IN IF pc = "validate" THEN
       CASE io = "ok" -> Await("import", db)
         [] io = "not_ok" ->
              Throw(CodedError(400, Chars("Validation failed: ") \o Chars("API returned 401: ")), db)
     ELSE
       CASE io = "rejected" -> Throw(PlainError(Chars("fetch failed")), db)
         [] io = "one" -> importArticles(args, db, 1, 0, <<fetchedMsg(1)>>, bytes)

\* Boolean(v)
Boolean(v) == Truthy(v)

\* noteTools: clear_notes.  Its awaits are on the synchronous driver and the
\* handler is followed to its end in one step.
clear_notes(args, ctx, db) ==
  IF ~requireOwner(ctx) THEN Throw(Forbidden, db)
  ELSE
    LET confirm == Boolean(Get(args, Chars("confirm")))
        target == Get(args, Chars("target_article"))
        status == Get(args, Chars("status"))
        filters ==
          (IF target.t \notin {"null", "undefined"}
             THEN <<Filter(Chars("target_article"), "eq", Str(String(target)))>> ELSE <<>>)
          \o (IF Truthy(status)
                THEN <<Filter(Chars("status"), "eq", Str(String(status)))>> ELSE <<>>)
        text(n) == numberText(n.v)
        batch(cnt) ==
          IF ~cnt.ok THEN Throw(cnt.error, db)
          ELSE IF cnt.value = Num(0)
            THEN Return(Obj(<< <<Chars("deleted"), Num(0)>>,
                               <<Chars("message"), Str(Chars("No matching notes found"))>> >>), db)
          ELSE IF ~confirm
            THEN Return(Obj(<< <<Chars("preview"), Bool(TRUE)>>,
                               <<Chars("count"), cnt.value>>,
                               <<Chars("message"),
                                 Str(text(cnt.value) \o Chars(" note(s) will be deleted. Call again with confirm: true to proceed."))>> >>), db)
          ELSE LET gone == delete(db, "editorial_notes", filters)
               IN IF ~gone.ok THEN Throw(gone.error, db)
                  ELSE Return(Obj(<< <<Chars("deleted"), cnt.value>>,
                                     <<Chars("message"),
                                       Str(text(cnt.value) \o Chars(" note(s) cleared."))>> >>), gone.db)
        single(gone) ==
          IF ~gone.ok THEN Throw(gone.error, db)
          ELSE IF Len(gone.value.v) = 0 THEN Throw(CodedError(404, Chars("Note not found")), gone.db)
          ELSE Return(Obj(<< <<Chars("deleted"), Num(1)>>,
                             <<Chars("message"), Str(Chars("Note deleted"))>> >>), gone.db)
    IN IF Truthy(Get(args, Chars("id")))
         THEN single(delete(db, "editorial_notes",
                            <<Filter(Chars("id"), "eq", Str(String(Get(args, Chars("id")))))>>))
       ELSE IF Len(filters) = 0
         THEN Throw(CodedError(400, Chars("Provide id, target_article, or status to specify what to delete")), db)
       ELSE batch(count(db, "editorial_notes", filters))

\* v ? String(v) : null
StringOrNull(v) == IF Truthy(v) THEN Str(String(v)) ELSE Null

\* Number(value) of a number, a boolean or null
Number(v) ==
  IF v.t = "boolean" THEN Num(IF v.v THEN 1 ELSE 0)
  ELSE IF v.t = "null" THEN Num(0)
  ELSE v

\* a ?? b
Coalesce(a, b) == IF a.t \in {"undefined", "null"} THEN b ELSE a

\* articleTools: list_articles.  The rows are stored without published_at,
\* so that ORDER BY published_at desc NULLS LAST leaves them in table order;
\* the markdown member of the result is left out.
list_articles(args, ctx, db) ==
  LET limit == Num(Min({Number(Coalesce(Get(args, Chars("limit")), Num(20))).v, 50}))
      offset == Number(Coalesce(Get(args, Chars("offset")), Num(0)))
      status == Get(args, Chars("status"))
      type == Get(args, Chars("type"))
      filters ==
        (IF Truthy(status) THEN <<Filter(Chars("status"), "eq", Str(String(status)))>> ELSE <<>>)
        \o (IF Truthy(type) THEN <<Filter(Chars("type"), "eq", Str(String(type)))>> ELSE <<>>)
      rows == query(db, [table |-> "articles",
                         select |-> <<Chars("id"), Chars("number"), Chars("title"), Chars("subtitle"),
                                      Chars("status"), Chars("type"), Chars("published_at"),
                                      Chars("views"), Chars("open_rate"), Chars("substack_url"),
                                      Chars("editorial_angle")>>,
                         filters |-> filters, limit |-> limit, offset |-> offset])
  IN IF ~rows.ok THEN Throw(rows.error, db)
     ELSE Return(Obj(<< <<Chars("articles"), rows.value>>,
                        <<Chars("count"), Num(Len(rows.value.v))>>,
                        <<Chars("offset"), offset>> >>), db)

\* Math.round(sum / n * 10) / 10 for a sum of rates and n > 0 articles.
\* A rate r is carried as the integer 1000 * r (12.345 is 12345), so that
\* sum / n * 10 is the fraction sum / (100 * n); Math.round takes the
\* integer nearest to it and, of two equally near, the one toward +Infinity:
\* floor(x + 1/2)
MathRoundTenths(sum, n) == ((sum + 50 * n) \div (100 * n)) * 100

\* the same with halves rounded away from zero: sign(x) * floor(|x| + 1/2)
roundHalfAwayFromZero(sum, n) ==
  IF sum < 0 THEN 0 - ((((0 - sum) + 50 * n) \div (100 * n)) * 100)
  ELSE ((sum + 50 * n) \div (100 * n)) * 100

RECURSIVE Sum(_, _)
\* rows.reduce((sum, a) => sum + (Number(a[column]) || 0), 0)
Sum(rows, column) ==
  IF Len(rows) = 0 THEN 0
  ELSE Sum(SubSeq(rows, 1, Len(rows) - 1), column)
       + (IF Get(rows[Len(rows)], column).t = "number" THEN Get(rows[Len(rows)], column).v ELSE 0)

\* statsTools: get_stats (the top_5_by_views member of the result, a query
\* of its own, is left out)
get_stats(args, ctx, db) ==
  LET allArticles == db["articles"]
      withStatus(status) ==
        SelectSeq(allArticles, LAMBDA a : Get(a, Chars("status")) = Str(Chars(status)))
      published == withStatus("published")
      totalViews == Sum(published, Chars("views"))
      avgOpenRate ==
        IF Len(published) # 0
          THEN MathRoundTenths(Sum(published, Chars("open_rate")), Len(published))
          ELSE 0
      active == <<Filter(Chars("status"), "eq", Str(Chars("active")))>>
      notesCount == count(db, "editorial_notes", active)
      sourcesCount == count(db, "editorial_sources", active)
  IN IF ~requireOwner(ctx) THEN Throw(Forbidden, db)
     ELSE Return(Obj(<< <<Chars("total_articles"), Num(Len(allArticles))>>,
                        <<Chars("published"), Num(Len(published))>>,
                        <<Chars("draft"), Num(Len(withStatus("draft")))>>,
                        <<Chars("archived"), Num(Len(withStatus("archived")))>>,
                        <<Chars("total_views"), Num(totalViews)>>,
                        <<Chars("avg_open_rate"), Num(avgOpenRate)>>,
                        <<Chars("active_notes"), notesCount.value>>,
                        <<Chars("active_sources"), sourcesCount.value>> >>), db)

Sources == "editorial_sources"

\* sourceTools: save_source up to its first await.  env.db.query is an async
\* method over a synchronous driver, so the dedup query has run when the
\* handler suspends; value holds the rows it found
save_source(args, ctx, db) ==
  IF ~requireOwner(ctx) THEN Throw(Forbidden, db)
  ELSE
    LET url == trim(String(Get(args, Chars("url"))))
        existing == query(db, [table |-> Sources,
                               filters |-> <<Filter(Chars("url"), "eq", Str(url))>>,
                               limit |-> Num(1)])
    IN IF ~existing.ok THEN Throw(existing.error, db)
       ELSE [Await("existing", db) EXCEPT !.value = existing.value]

\* save_source continued after an await: held is the value awaited
save_source_resume(pc, args, held, db, bytes) ==
  IF pc = "existing" THEN
    IF Len(held.v) > 0
      THEN Return(Obj(<< <<Chars("duplicate"), Bool(TRUE)>>,
                         <<Chars("existing_id"), Get(held.v[1], Chars("id"))>>,
                         <<Chars("existing_title"), Get(held.v[1], Chars("title"))>>,
                         <<Chars("message"),
                           Str(Chars("This URL already exists in editorial sources"))>> >>), db)
      ELSE
        LET ins == insert(db, Sources,
                     Obj(<< <<Chars("url"), Str(trim(String(Get(args, Chars("url")))))>>,
                            <<Chars("title"), Str(trim(String(Get(args, Chars("title")))))>>,
                            <<Chars("published_date"), StringOrNull(Get(args, Chars("published_date")))>>,
                            <<Chars("target_article"), StringOrNull(Get(args, Chars("target_article")))>>,
                            <<Chars("type"), StringOrNull(Get(args, Chars("type")))>>,
                            <<Chars("description"), StringOrNull(Get(args, Chars("description")))>>,
                            <<Chars("key_quotes"), StringOrNull(Get(args, Chars("key_quotes")))>>,
                            <<Chars("status"), Str(Chars("active"))>> >>), bytes)
        IN IF ~ins.ok THEN Throw(ins.error, db)
           ELSE [Await("source", ins.db) EXCEPT !.value = ins.row]
  ELSE
    Return(SetMember(held, Chars("message"),
             Str(Chars("Source saved")
                 \o (IF Truthy(Get(held, Chars("target_article")))
                       THEN Chars(" for article ") \o Get(held, Chars("target_article")).v
                       ELSE <<>>))), db)

(***************************************************************************)
(* Tool registry (mcp.ts)                                                  *)
(***************************************************************************)
ALL_TOOLS ==
  <<Chars("list_articles"), Chars("get_article"), Chars("search_articles"), Chars("get_articles_since"),
    Chars("list_experts"), Chars("get_expert"), Chars("list_tags"), Chars("add_note"), Chars("list_notes"),
    Chars("update_note"), Chars("clear_notes"), Chars("save_source"), Chars("list_sources"),
    Chars("deactivate_source"), Chars("mark_source_used"), Chars("prepare_brief"), Chars("get_stats"),
    Chars("import_newsletter"), Chars("list_voice_templates"), Chars("draft_article")>>

\* a registry that resolves every name to a tool
TOOL_MAP_Any ==
  {ALL_TOOLS[i] : i \in 1..Len(ALL_TOOLS)} \cup {Chars("nonexistent_tool")}

\* TOOL_MAP.get(name) is defined exactly for these names
TOOL_MAP == {ALL_TOOLS[i] : i \in 1..Len(ALL_TOOLS)}

\* the tools whose handler begins with requireOwner(ctx): noteTools,
\* sourceTools, briefTools, statsTools, importTools and writeTools
OwnerTools == SubSeq(ALL_TOOLS, 8, 20)

\* a handler that the model follows no further than its first statement,
\* which for an owner-only tool is requireOwner(ctx); the body that runs
\* for an owner (its storage calls and what it returns, null here) is left
\* out, and no request of the model reaches it
firstStatement(name, ctx, db) ==
  IF (\E i \in 1..Len(OwnerTools) : OwnerTools[i] = name) /\ ~requireOwner(ctx)
    THEN Throw(Forbidden, db)
    ELSE Return(Null, db)

\* tool.handler(toolArgs, ctx, env) up to its first suspension
handler(name, args, ctx, db, bytes) ==
  IF name = Chars("add_note") THEN add_note(args, ctx, db, bytes)
  ELSE IF name = Chars("import_newsletter") THEN import_newsletter(args, ctx, db)
  ELSE firstStatement(name, ctx, db)

(***************************************************************************)
(* JSON-RPC dispatcher (mcp.ts)                                            *)
(***************************************************************************)
mcpError(id, code, message) ==
  Obj(<< <<Chars("jsonrpc"), Str(Chars("2.0"))>>, <<Chars("id"), id>>,
         <<Chars("error"), Obj(<< <<Chars("code"), code>>, <<Chars("message"), message>> >>)>> >>)

mcpResult(id, result) ==
  Obj(<< <<Chars("jsonrpc"), Str(Chars("2.0"))>>, <<Chars("id"), id>>, <<Chars("result"), result>> >>)

\* a catch block that wraps every thrown value as an internal error
toolErrorWrapped(id, err) ==
  mcpError(id, Num(-32603),
           Str(Chars("Tool error: ") \o String(Get(err.value, Chars("message")))))

\* the catch block of tools/call: err is the value the handler threw
toolError(id, err) ==
  IF Truthy(err.value) /\ err.value.t \in {"object", "array"}
     /\ Has(err.value, Chars("code")) /\ Has(err.value, Chars("message"))
    THEN mcpError(id, Get(err.value, Chars("code")), Get(err.value, Chars("message")))
    ELSE LET message == IF err.isError THEN Get(err.value, Chars("message")).v
                        ELSE String(err.value)
         IN mcpError(id, Num(-32603), Str(Chars("Tool error: ") \o message))

\* the try block of tools/call once the handler has returned result
toolResult(id, result) ==
  mcpResult(id,
    Obj(<< <<Chars("content"),
             Arr(<< Obj(<< <<Chars("type"), Str(Chars("text"))>>,
                           <<Chars("text"), Str(JSONStringifyPretty(result))>> >>) >>)>> >>))

\* the response to a tools/call whose handler ended with outcome
toolResponse(id, outcome) ==
  IF outcome.kind = "return" THEN toolResult(id, outcome.value)
  ELSE toolError(id, outcome.value)

\* what the tool handler did so far: nothing (no handler was invoked), or
\* the kind and value of Return, Throw or Await
NoOutcome == [kind |-> "none", value |-> Undefined]
OutcomeOf(o) == [kind |-> o.kind, value |-> o.value]

Responded(response, db, outcome) ==
  [kind |-> "response", response |-> response, db |-> db, pc |-> "done",
   outcome |-> outcome]

Awaiting(o) ==
  [kind |-> "await", response |-> Undefined, db |-> o.db, pc |-> o.pc,
   outcome |-> OutcomeOf(o)]

\* tools/call from `await tool.handler(...)` on: the handler is suspended, or
\* ended with o and the try or the catch block builds the response
afterHandler(id, o) ==
  IF o.kind = "await" THEN Awaiting(o)
  ELSE Responded(toolResponse(id, o), o.db, OutcomeOf(o))

\* handleJsonRpc(req, ctx, env) up to the first suspension of a tool handler.
\*   kind "response": the promise resolved with response
\*   kind "await"   : the tool handler is suspended at outcome.pc
\*   kind "reject"  : destructuring req threw (req is null)
\* outcome is what the tool handler did, NoOutcome when none was invoked.
\* serverInfo comes from DEFAULT_CONFIG.  tools/list is outside the modelled
\* request domain.
handleJsonRpc(req, ctx, db, bytes) ==
  LET id == Get(req, Chars("id"))
      method == Get(req, Chars("method"))
      params == Get(req, Chars("params"))
      toolName == Get(params, Chars("name"))
      rawArgs == Get(params, Chars("arguments"))
      toolArgs == IF rawArgs.t \in {"undefined", "null"} THEN Obj(<<>>) ELSE rawArgs
  IN IF req.t \in {"null", "undefined"}
       THEN [kind |-> "reject", response |-> Undefined, db |-> db, pc |-> "done",
             outcome |-> NoOutcome]
     ELSE IF method = Str(Chars("initialize"))
       THEN Responded(
              mcpResult(id,
                Obj(<< <<Chars("protocolVersion"), Str(Chars("2024-11-05"))>>,
                       <<Chars("capabilities"), Obj(<< <<Chars("tools"), Obj(<<>>)>> >>)>>,
                       <<Chars("serverInfo"),
                         Obj(<< <<Chars("name"), Str(Chars("Inkwell Newsletter"))>>,
                                <<Chars("version"), Str(Chars("0.1.0"))>>,
                                <<Chars("description"),
                                  Str(Chars("Editorial intelligence MCP server"))>> >>)>> >>)),
              db, NoOutcome)
     ELSE IF method = Str(Chars("tools/call"))
       THEN IF ~Truthy(toolName)
              THEN Responded(mcpError(id, Num(-32602), Str(Chars("Missing tool name"))),
                             db, NoOutcome)
            ELSE IF ~(toolName.t = "string" /\ toolName.v \in TOOL_MAP)
              THEN Responded(mcpError(id, Num(-32601),
                                      Str(Chars("Unknown tool: ") \o String(toolName))),
                             db, NoOutcome)
            ELSE afterHandler(id, handler(toolName.v, toolArgs, ctx, db, bytes))
     ELSE IF method \in {Str(Chars("notifications/initialized")), Str(Chars("ping"))}
       THEN Responded(mcpResult(id, Obj(<<>>)), db, NoOutcome)
     ELSE Responded(mcpError(id, Num(-32601),
                             Str(Chars("Method not found: ") \o String(method))),
                    db, NoOutcome)

\* handleJsonRpc resumed: the fetch the handler of req waited for at pc
\* completed with io
resumeJsonRpc(req, pc, io, db, bytes) ==
  LET id == Get(req, Chars("id"))
      params == Get(req, Chars("params"))
      rawArgs == Get(params, Chars("arguments"))
      toolArgs == IF rawArgs.t \in {"undefined", "null"} THEN Obj(<<>>) ELSE rawArgs
  IN afterHandler(id, import_newsletter_resume(pc, toolArgs, io, db, bytes))

(***************************************************************************)
(* The client side: what is written to the server's stdin                  *)
(***************************************************************************)
\* UTF-8 length of one UTF-16 code unit of the modelled texts
Utf8Width(c) == IF c = "é" THEN 2 ELSE IF c = "€" THEN 3 ELSE 1

RECURSIVE byteLength(_)
byteLength(s) ==
  IF Len(s) = 0 THEN 0
  ELSE IF Len(s) = 1 THEN Utf8Width(s[1])
  ELSE LET half == Len(s) \div 2
       IN byteLength(SubSeq(s, 1, half)) + byteLength(SubSeq(s, half + 1, Len(s)))

ContentLengthHeader == <<"C","o","n","t","e","n","t","-","L","e","n","g","t","h",":"," ">>

\* a length-prefixed frame around text
Framed(text) == ContentLengthHeader \o numberText(byteLength(text)) \o CRLFCRLF \o text

Request(id, method, params) ==
  Obj(SelectSeq(<< <<Chars("id"), id>>, <<Chars("method"), method>>, <<Chars("params"), params>> >>,
                LAMBDA m : m[2].t # "undefined"))

Call(id, name, arguments) ==
  Request(id, Str(Chars("tools/call")),
          Obj(SelectSeq(<< <<Chars("name"), name>>, <<Chars("arguments"), arguments>> >>,
                        LAMBDA m : m[2].t # "undefined")))

NoteArgs == Obj(<< <<Chars("type"), Str(Chars("idea"))>>, <<Chars("content"), Str(<<"c">>)>> >>)
KitArgs == Obj(<< <<Chars("platform"), Str(Chars("kit"))>>, <<Chars("api_key"), Str(<<"k">>)>> >>)

\* the JSON values a client sends alone on the stream
SingleValues ==
  << Request(Num(1), Str(Chars("ping")), Undefined),
     Request(Undefined, Str(Chars("ping")), Undefined),
     Request(Null, Str(Chars("ping")), Undefined),
     Request(Num(1), Str(Chars("initialize")), Undefined),
     Request(Undefined, Str(Chars("notifications/initialized")), Undefined),
     Request(Num(1), Str(Chars("resources/list")), Undefined),
     Request(Undefined, Str(Chars("resources/list")), Undefined),
     Request(Num(1), Undefined, Undefined),
     Null,
     Call(Num(1), Str(Chars("add_note")), NoteArgs),
     Call(Undefined, Str(Chars("add_note")), NoteArgs),
     Call(Num(1), Str(Chars("add_note")), Undefined),
     Call(Num(1), Str(Chars("import_newsletter")), KitArgs),
     Call(Undefined, Str(Chars("import_newsletter")), KitArgs),
     Call(Num(1), Str(Chars("import_newsletter")), Obj(<< <<Chars("platform"), Str(Chars("kit"))>> >>)),
     Call(Num(1), Str(Chars("import_newsletter")), Obj(<< <<Chars("platform"), Str(<<"x">>)>> >>)),
     Call(Num(1), Str(Chars("nonexistent_tool")), Obj(<<>>)),
     Call(Undefined, Str(Chars("nonexistent_tool")), Obj(<<>>)),
     Request(Num(1), Str(Chars("tools/call")), Undefined),
     Call(Num(1), Undefined, Obj(<<>>)),
     Call(Num(1), Str(<<>>), Obj(<<>>)),
     Call(Undefined, Undefined, Undefined) >>

\* the kinds of message of a stream of several messages; the request at
\* position pos of the stream carries pos as its id
MultiKinds == {"ping", "import", "bad"}

MultiValue(kind, pos) ==
  CASE kind = "ping" -> Request(Num(pos), Str(Chars("ping")), Undefined)
    [] kind = "import" -> Call(Num(pos), Str(Chars("import_newsletter")), KitArgs)
    [] kind = "bad" -> Undefined

\* the text of a message: the compact JSON of its value, or a truncated
\* JSON text for the kind "bad"
MultiText(kind, pos) ==
  IF kind = "bad" THEN <<"{", "\"", "i", "d", "\"", ":">> \o numberText(pos)
  ELSE JSONStringify(MultiValue(kind, pos))

\* a call of an owner-only tool without arguments, as a request with id 1
\* or as a notification
OwnerCall(name, withId) ==
  Call(IF withId THEN Num(1) ELSE Undefined, Str(name), Obj(<<>>))

\* a call that names a tool in characters of two and of three bytes
AccentCall == Call(Num(1), Str(<<"c", "a", "f", "é", "€">>), Obj(<<>>))

\* every JSON value a client of the model writes
WireValues ==
  SingleValues
  \o [i \in 1..(2 * MaxMsgs) |->
        MultiValue(<<"ping", "import">>[((i - 1) % 2) + 1], ((i - 1) \div 2) + 1)]
  \o [i \in 1..(2 * Len(OwnerTools)) |->
        OwnerCall(OwnerTools[((i - 1) \div 2) + 1], i % 2 = 1)]
  \o <<AccentCall>>

\* the compact JSON text of each of them
WireTexts == [i \in 1..Len(WireValues) |-> JSONStringify(WireValues[i])]

SyntaxError == [t |-> "SyntaxError"]

\* JSON.parse on the texts that reach it in the model: the compact JSON text
\* of a client value parses to that value; every other text the transport can
\* cut out of the modelled streams (a truncated object, a header line) is not
\* JSON and throws.
JSONParse(text) ==
  LET hits == {i \in 1..Len(WireTexts) : WireTexts[i] = text}
  IN IF hits = {} THEN SyntaxError ELSE WireValues[Min(hits)]

Sent(framing, text) == [framing |-> framing, text |-> text]

\* the bytes of one message on the wire
Wire(m) ==
  CASE m.framing = "header" -> Framed(m.text)
    [] m.framing = "lower" ->
         ContentLengthName \o numberText(byteLength(m.text)) \o CRLFCRLF \o m.text
    [] m.framing = "line" -> m.text \o LF
    [] m.framing = "padded" -> <<" ">> \o m.text \o <<" ", "\r", "\n">>

\* an empty line, which the line-delimited protocol skips
BlankLine == Sent("line", <<>>)

Contexts == <<OwnerCtx, PublicCtx, Null>>

(***************************************************************************)
(* State                                                                   *)
(***************************************************************************)
VARIABLES
  stdin,      \* the frames written by the client and not yet read, in order
  buffer,     \* startStdioServer: let buffer
  running,    \* the processBuffer run of the current macrotask, between
              \* slicing a body out of the buffer and handling it
  suspended,  \* the processBuffer runs suspended in handleMessage, each
              \* with the request and the position of its tool handler
  stdout,     \* the frames written by send, in order
  db,         \* env.db: the rows of each table
  ctx,        \* the AuthContext of the session
  sent,       \* history: the messages the client writes in the session
  delivered,  \* history: the units delivered by 'data' events so far
  removed,    \* history: the units sliced off the front of buffer so far
  handled,    \* history: one entry per call of handleMessage, in call order
  arrived,    \* history: whether a chunk ended inside a frame (cut), and the
              \* frames at whose last unit a chunk ended (ends)
  proc,       \* the process: whether env.db was closed and whether it exited
  schema,     \* the database file: the objects the migration scripts
              \* created and the rows of _migrations
  call        \* history: the last call of the storage adapter or of
              \* resolveAuth made directly, with what it returned or threw

vars == <<stdin, buffer, running, suspended, stdout, db, ctx, sent, delivered,
          removed, handled, arrived, proc, schema, call>>

\* the variables of the stdio transport
transport == <<stdin, buffer, running, suspended, stdout, ctx, sent, delivered,
               removed, handled, arrived>>

\* a process that runs, before any signal
Running == [closed |-> FALSE, exited |-> FALSE]

\* a new database file, and one in which migrate() has run to its end
Fresh == [table |-> FALSE, ledger |-> <<>>, objects |-> {}]
Migrated ==
  [table |-> TRUE,
   ledger |-> [i \in 1..Len(MIGRATIONS) |-> MIGRATIONS[i].name],
   objects |-> UNION {ScriptObjects(i) : i \in 1..Len(MIGRATIONS)}]

NoCall == [op |-> "none"]

Idle == [active |-> FALSE, msg |-> 0, body |-> <<>>]

\* the history entry of a call of handleMessage(body): after is 0 when the
\* processBuffer run that makes the call was just started by a data event,
\* and else the call of handleMessage that this run made before
Entry(body, after) ==
  [body |-> body, after |-> after, state |-> "called", outcome |-> NoOutcome,
   wrote |-> FALSE]

EmptyDb == [editorial_notes |-> <<>>, articles |-> <<>>, editorial_sources |-> <<>>]

InitTransport(messages, c) ==
  /\ sent = messages
  /\ stdin = [i \in 1..Len(messages) |-> Wire(messages[i])]
  /\ ctx = c
  /\ buffer = <<>>
  /\ running = Idle
  /\ suspended = <<>>
  /\ stdout = <<>>
  /\ db = EmptyDb
  /\ delivered = <<>>
  /\ removed = <<>>
  /\ handled = <<>>
  /\ arrived = [cut |-> FALSE, ends |-> {}]

\* the server started on a migrated database, the client writes messages
InitWith(messages, c) ==
  /\ InitTransport(messages, c)
  /\ proc = Running
  /\ schema = Migrated
  /\ call = NoCall

Init ==
  \/ \E i \in 1..Len(SingleValues), c \in 1..Len(Contexts) :
       InitWith(<<Sent("header", JSONStringify(SingleValues[i]))>>, Contexts[c])
  \/ \E f \in {"line", "lower"} :
       InitWith(<<Sent(f, JSONStringify(SingleValues[1]))>>, OwnerCtx)
  \/ \E n \in 2..MaxMsgs : \E kinds \in [1..n -> MultiKinds], blank \in BOOLEAN :
       InitWith([p \in 1..n |-> Sent("header", MultiText(kinds[p], p))]
                  \o (IF blank THEN <<BlankLine>> ELSE <<>>),
                OwnerCtx)
  \/ InitWith(<<Sent("line", JSONStringify(AccentCall))>>, OwnerCtx)

(***************************************************************************)
(* Transport (local/stdio.ts)                                              *)
(***************************************************************************)
\* a send that counts the UTF-16 code units of the text (json.length)
sendLength(response) ==
  LET json == JSONStringify(response)
  IN ContentLengthHeader \o numberText(Len(json)) \o CRLFCRLF \o json

\* send(response): the frame written to stdout
send(response) ==
  LET json == JSONStringify(response)
  IN ContentLengthHeader \o numberText(byteLength(json)) \o CRLFCRLF \o json

\* a handleMessage that sends the response of an answered request again
respondTwice(out, msg, req, response) ==
  IF Get(req, Chars("id")).t \notin {"null", "undefined"}
    THEN out \o << [msg |-> msg, response |-> response, frame |-> send(response)],
                   [msg |-> msg, response |-> response, frame |-> send(response)] >>
    ELSE out

\* a handleMessage that sends the response whatever the id of the request
respondAlways(out, msg, req, response) ==
  Append(out, [msg |-> msg, response |-> response, frame |-> send(response)])

\* handleMessage after handleJsonRpc resolved: stdout after the call
\* (msg is the history index of the call)
respond(out, msg, req, response) ==
  IF Get(req, Chars("id")).t \notin {"null", "undefined"}
    THEN Append(out, [msg |-> msg, response |-> response, frame |-> send(response)])
    ELSE out

\* the drain loop of a processBuffer run goes on over buf, the history of
\* handleMessage calls being log and the last call of this run being after
Drain(buf, log, after) ==
  \E pass \in {processBuffer(buf)} :
     /\ buffer' = pass.buffer
     /\ removed' = removed \o SubSeq(buf, 1, Len(buf) - Len(pass.buffer))
     /\ IF pass.kind = "message"
          THEN /\ handled' = Append(log, Entry(pass.body, after))
               /\ running' = [active |-> TRUE, msg |-> Len(log) + 1,
                              body |-> pass.body]
          ELSE /\ handled' = log
               /\ running' = Idle

Flat(frames) == Join(frames, <<>>)

RECURSIVE Drop(_, _)
Drop(frames, k) ==
  IF k = 0 THEN frames
  ELSE IF k >= Len(frames[1]) THEN Drop(Tail(frames), k - Len(frames[1]))
  ELSE <<SubSeq(frames[1], k + 1, Len(frames[1]))>> \o Tail(frames)

\* the chunk sizes that end with the last unit of a frame
FrameEnds(frames) == {Len(Flat(SubSeq(frames, 1, j))) : j \in 1..Len(frames)}

\* the sizes of the next chunk: up to the end of a frame, or a few units of
\* the last frame of the stream; held is the number of units in the buffer
\* and single tells that the stream is one message
ChunkSizes(frames, held, single) ==
  IF frames = <<>> THEN {}
  ELSE FrameEnds(frames)
       \cup (IF Len(frames) = 1
               THEN {k \in 1..MaxChunk :
                       k <= Len(frames[1]) /\ (single \/ held + k <= MaxPartial)}
               ELSE {})

\* a data handler that assigns the chunk to the buffer while a handler is
\* suspended, where the source appends it
DataAssigning(k) ==
  /\ ~running.active
  /\ k \in ChunkSizes(stdin, Len(buffer), Len(sent) = 1)
  /\ LET chunk == SubSeq(Flat(stdin), 1, k)
         whole == k \in FrameEnds(stdin)
     IN /\ stdin' = Drop(stdin, k)
        /\ delivered' = delivered \o chunk
        /\ arrived' = [cut |-> arrived.cut \/ ~whole,
                       ends |-> IF whole
                                  THEN arrived.ends \cup {Len(sent) - Len(stdin')}
                                  ELSE arrived.ends]
        /\ Drain(IF suspended = <<>> THEN buffer \o chunk ELSE chunk, handled, 0)
  /\ UNCHANGED <<suspended, stdout, db, ctx, sent, proc, schema, call>>

\* process.stdin.on('data'): buffer += chunk; processBuffer()
Data(k) ==
  /\ ~running.active
  /\ k \in ChunkSizes(stdin, Len(buffer), Len(sent) = 1)
  /\ LET chunk == SubSeq(Flat(stdin), 1, k)
         whole == k \in FrameEnds(stdin)
     IN /\ stdin' = Drop(stdin, k)
        /\ delivered' = delivered \o chunk
        /\ arrived' = [cut |-> arrived.cut \/ ~whole,
                       ends |-> IF whole
                                  THEN arrived.ends \cup {Len(sent) - Len(stdin')}
                                  ELSE arrived.ends]
        /\ Drain(buffer \o chunk, handled, 0)
  /\ UNCHANGED <<suspended, stdout, db, ctx, sent, proc, schema, call>>

Done(log, msg, outcome, wrote) ==
  [log EXCEPT ![msg].state = "done", ![msg].outcome = outcome,
              ![msg].wrote = @ \/ wrote]

\* handleMessage(body), called by the running processBuffer, up to the
\* first suspension of the tool handler; when handleMessage finishes, the
\* drain loop goes on in the same macrotask
HandleMessage ==
  /\ running.active
  /\ \E req \in {JSONParse(running.body)} :
       LET msg == running.msg
       IN IF req = SyntaxError
          THEN /\ Drain(buffer, Done(handled, msg, NoOutcome, FALSE), msg)
               /\ UNCHANGED <<suspended, stdout, db>>
          ELSE \E bytes \in RandomBytes :
                 \E r \in {handleJsonRpc(req, ctx, db, bytes)} :
                    CASE r.kind = "reject" ->
                           /\ Drain(buffer, Done(handled, msg, NoOutcome, FALSE), msg)
                           /\ UNCHANGED <<suspended, stdout, db>>
                      [] r.kind = "response" ->
                           /\ stdout' = respond(stdout, msg, req, r.response)
                           /\ db' = r.db
                           /\ Drain(buffer, Done(handled, msg, r.outcome, r.db # db), msg)
                           /\ UNCHANGED suspended
                      [] r.kind = "await" ->
                           /\ suspended' = Append(suspended,
                                [msg |-> msg, req |-> req, pc |-> r.pc])
                           /\ handled' = [handled EXCEPT ![msg].state = "suspended",
                                                         ![msg].outcome = r.outcome,
                                                         ![msg].wrote = r.db # db]
                           /\ running' = Idle
                           /\ db' = r.db
                           /\ UNCHANGED <<buffer, removed, stdout>>
  /\ UNCHANGED <<stdin, ctx, sent, delivered, arrived, proc, schema, call>>

Without(s, i) == SubSeq(s, 1, i - 1) \o SubSeq(s, i + 1, Len(s))

\* the fetch awaited by the tool handler of suspended[i] completes: the
\* handler, handleJsonRpc, handleMessage and the drain loop of that
\* processBuffer run go on
Resume(i) ==
  /\ ~running.active
  /\ i \in 1..Len(suspended)
  /\ LET s == suspended[i]
     IN \E io \in IoResults(s.pc), bytes \in RandomBytes :
          \E r \in {resumeJsonRpc(s.req, s.pc, io, db, bytes)} :
             IF r.kind = "await"
               THEN /\ suspended' = [suspended EXCEPT ![i].pc = r.pc]
                    /\ handled' = [handled EXCEPT ![s.msg].outcome = r.outcome,
                                                  ![s.msg].wrote = @ \/ r.db # db]
                    /\ db' = r.db
                    /\ UNCHANGED <<buffer, removed, running, stdout>>
               ELSE /\ suspended' = Without(suspended, i)
                    /\ stdout' = respond(stdout, s.msg, s.req, r.response)
                    /\ db' = r.db
                    /\ Drain(buffer, Done(handled, s.msg, r.outcome, r.db # db), s.msg)
  /\ UNCHANGED <<stdin, ctx, sent, delivered, arrived, proc, schema, call>>

Next ==
  \/ \E k \in ChunkSizes(stdin, Len(buffer), Len(sent) = 1) : Data(k)
  \/ HandleMessage
  \/ \E i \in 1..Len(suspended) : Resume(i)

Spec == Init /\ [][Next]_vars

(***************************************************************************)
(* Calls of the owner-only tools by a caller who is not the owner (ctx of  *)
(* role public, or null), and the owner's import beside them.              *)
(***************************************************************************)
InitOwner ==
  \/ \E i \in 1..Len(OwnerTools), withId \in BOOLEAN, c \in {PublicCtx, Null} :
       InitWith(<<Sent("header", JSONStringify(OwnerCall(OwnerTools[i], withId)))>>, c)
  \/ InitWith(<<Sent("header", MultiText("import", 1))>>, OwnerCtx)

SpecOwner == InitOwner /\ [][Next]_vars

(***************************************************************************)
(* Shutdown (local/stdio.ts, cleanup).  A signal is handled between two    *)
(* macrotasks of the event loop; process.exit ends the process, so nothing *)
(* that is suspended at an await is ever continued.                        *)
(***************************************************************************)
\* env.db.close()
close(p) == [p EXCEPT !.closed = TRUE]

\* process.exit(0)
exit(p) == [p EXCEPT !.exited = TRUE]

\* a handler that releases the storage handle and lets the process run on
cleanupNoExit(p) == close(p)

\* const cleanup = () => { env.db.close(); process.exit(0); }
cleanup(p) == exit(close(p))

\* process.on('SIGINT', cleanup); process.on('SIGTERM', cleanup)
Signal ==
  /\ ~proc.closed /\ ~proc.exited
  /\ proc' = cleanup(proc)
  /\ UNCHANGED <<transport, db, schema, call>>

\* streams of pings and imports, so that requests are in flight
InitShutdown ==
  \E n \in 1..MaxMsgs : \E kinds \in [1..n -> {"ping", "import"}] :
    InitWith([p \in 1..n |-> Sent("header", MultiText(kinds[p], p))], OwnerCtx)

NextShutdown ==
  \/ ~proc.exited /\ Next
  \/ Signal

SpecShutdown == InitShutdown /\ [][NextShutdown]_vars

(***************************************************************************)
(* Authentication (auth.ts): the entry point resolves the context that it  *)
(* hands to startStdioServer.  A secret is a string or undefined.          *)
(***************************************************************************)
\* a resolveAuth that grants owner to equal secrets without the presence test
resolveAuthEqual(authEnabled, ownerKey, providedKey) ==
  IF ~authEnabled THEN OwnerCtx
  ELSE IF providedKey = ownerKey THEN OwnerCtx
  ELSE PublicCtx

resolveAuth(authEnabled, ownerKey, providedKey) ==
  IF ~authEnabled THEN OwnerCtx
  ELSE IF ~Truthy(providedKey) \/ ~Truthy(ownerKey) THEN PublicCtx
  ELSE IF providedKey = ownerKey THEN OwnerCtx
  ELSE PublicCtx

Secrets ==
  {Undefined, Str(<<>>), Str(Chars("a")), Str(Chars("b")), Str(Chars("A")),
   Str(Chars("ab")), Str(Chars("a ")), Str(Chars("0"))}

ResolveAuth(authEnabled, ownerKey, providedKey) ==
  /\ ctx' = resolveAuth(authEnabled, ownerKey, providedKey)
  /\ call' = [op |-> "resolveAuth", authEnabled |-> authEnabled,
              ownerKey |-> ownerKey, providedKey |-> providedKey]
  /\ UNCHANGED <<stdin, buffer, running, suspended, stdout, db, sent, delivered,
                 removed, handled, arrived, proc, schema>>

InitAuth == InitWith(<<>>, Null)

NextAuth ==
  \E authEnabled \in BOOLEAN, ownerKey \in Secrets, providedKey \in Secrets :
    ResolveAuth(authEnabled, ownerKey, providedKey)

SpecAuth == InitAuth /\ [][NextAuth]_vars

(***************************************************************************)
(* The storage adapter called directly (DatabaseAdapter of types.ts, as a  *)
(* tool or an embedding program calls it) on the table editorial_notes.    *)
(* call records the last call: its arguments, what it returned or threw,   *)
(* the rows the table held before it, and the data and row of the insert   *)
(* that directly preceded it.                                              *)
(***************************************************************************)
Notes == "editorial_notes"
Idea == Str(Chars("idea"))
SomeId == Str(Chars("n1"))

\* rows handed to insert: without an id; with a collection, a null and a
\* boolean; with an id and a number; with an id that is falsy
InsertData ==
  { Obj(<< <<Chars("type"), Idea>>, <<Chars("content"), Str(Chars("c"))>> >>),
    Obj(<< <<Chars("type"), Str(Chars("todo"))>>, <<Chars("content"), Str(Chars("c"))>>,
           <<Chars("tags"), Arr(<<Str(Chars("a"))>>)>>, <<Chars("target_article"), Null>>,
           <<Chars("priority"), Bool(TRUE)>> >>),
    Obj(<< <<Chars("id"), SomeId>>, <<Chars("type"), Idea>>,
           <<Chars("content"), Str(Chars("c"))>>, <<Chars("priority"), Num(2)>> >>),
    Obj(<< <<Chars("id"), Str(<<>>)>>, <<Chars("type"), Idea>>,
           <<Chars("content"), Str(Chars("c"))>> >>) }

FilterLists ==
  { <<>>,
    <<Filter(Chars("id"), "eq", SomeId)>>,
    <<Filter(Chars("type"), "eq", Idea)>>,
    <<Filter(Chars("id"), "in", Arr(<<>>))>>,
    <<Filter(Chars("type"), "eq", Idea), Filter(Chars("id"), "in", Arr(<<>>))>>,
    <<Filter(Chars("id"), "in", Arr(<<SomeId, Str(generateId([i \in 1..16 |-> 0]))>>))>>,
    <<Filter(Chars("type"), "neq", Idea), Filter(Chars("target_article"), "is", Null)>>,
    <<Filter(Chars("id"), "eq", Str(Chars("zz")))>> }

Patches ==
  { Obj(<<>>),
    Obj(<< <<Chars("status"), Str(Chars("used"))>> >>),
    Obj(<< <<Chars("id"), Null>> >>) }

NoInsert == [data |-> Undefined, row |-> Undefined]

\* the insert that the call recorded in c was, if it was one that returned
LastInsert(c) ==
  IF c.op = "insert" /\ c.result.ok THEN [data |-> c.data, row |-> c.result.value]
  ELSE NoInsert

Result(r) == [ok |-> r.ok, value |-> r.value, error |-> r.error]

Called(r) ==
  /\ db' = r.db
  /\ UNCHANGED <<transport, proc, schema>>

Insert(data, bytes) ==
  /\ Len(db[Notes]) < MaxRows
  /\ \E r \in {insert(db, Notes, data, bytes)} :
       /\ call' = [op |-> "insert", data |-> data, filters |-> <<>>,
                   result |-> [ok |-> r.ok, value |-> r.row, error |-> r.error],
                   before |-> db[Notes], inserted |-> NoInsert]
       /\ Called(r)

Query(filters) ==
  \E r \in {query(db, [table |-> Notes, filters |-> filters, limit |-> Undefined])} :
    /\ call' = [op |-> "query", data |-> Undefined, filters |-> filters,
                result |-> Result(r), before |-> db[Notes], inserted |-> LastInsert(call)]
    /\ Called(r)

QueryOne(filters) ==
  \E r \in {queryOne(db, [table |-> Notes, filters |-> filters, limit |-> Undefined])} :
    /\ call' = [op |-> "queryOne", data |-> Undefined, filters |-> filters,
                result |-> Result(r), before |-> db[Notes], inserted |-> LastInsert(call)]
    /\ Called(r)

Update(filters, data) ==
  \E r \in {update(db, Notes, filters, data)} :
    /\ call' = [op |-> "update", data |-> data, filters |-> filters,
                result |-> Result(r), before |-> db[Notes], inserted |-> LastInsert(call)]
    /\ Called(r)

Delete(filters) ==
  \E r \in {delete(db, Notes, filters)} :
    /\ call' = [op |-> "delete", data |-> Undefined, filters |-> filters,
                result |-> Result(r), before |-> db[Notes], inserted |-> LastInsert(call)]
    /\ Called(r)

\* the filter by which a caller looks up the row that insert just returned
ById(row) == <<Filter(Chars("id"), "eq", Get(row, Chars("id")))>>

InitStore == InitWith(<<>>, OwnerCtx)

NextStore ==
  \/ \E data \in InsertData, bytes \in RandomBytes : Insert(data, bytes)
  \/ \E filters \in FilterLists : Query(filters)
  \/ \E filters \in FilterLists : QueryOne(filters)
  \/ LastInsert(call) # NoInsert /\ QueryOne(ById(LastInsert(call).row))
  \/ \E filters \in FilterLists, data \in Patches : Update(filters, data)
  \/ \E filters \in FilterLists : Delete(filters)

SpecStore == InitStore /\ [][NextStore]_vars

(***************************************************************************)
(* Properties                                                              *)
(***************************************************************************)
\* the value handleMessage parses out of the body of its k-th call
Parsed(k) == JSONParse(handled[k].body)

\* v is a JSON-RPC request object / one whose id is neither null nor absent
IsRequest(v) == v # SyntaxError /\ v.t = "object"
HasId(v) == Get(v, Chars("id")).t \notin {"null", "undefined"}
Present(o, k) == Get(o, Chars(k)).t # "undefined"

\* the positions in stdout of the frames written by the k-th call
FramesOf(k) == {i \in 1..Len(stdout) : stdout[i].msg = k}

\* every message of the stream is a JSON-RPC request (or a blank line)
AllRequests ==
  \A p \in 1..Len(sent) : sent[p] = BlankLine \/ IsRequest(JSONParse(sent[p].text))

\* C1: complete requests, over any number of chunks, are handled in arrival
\* order: no call of handleMessage begins while an earlier one is unfinished,
\* and the responses are written in the order of the requests.  (Stated for
\* the deliveries in which every chunk ends with the last unit of a frame.)
C1_ArrivalOrder ==
  (AllRequests /\ ~arrived.cut) =>
     /\ \A i, j \in 1..Len(handled) : i < j => handled[i].state = "done"
     /\ \A a, b \in 1..Len(stdout) : a < b => stdout[a].msg < stdout[b].msg

\* C2: however the units of one length-prefixed message are cut into chunks,
\* handleMessage is called exactly once, with the body of the message.
C2_OneBodyAnyChunking ==
  (Len(sent) = 1 /\ sent[1].framing \in {"header", "lower"}) =>
     /\ Len(handled) <= 1
     /\ \A k \in 1..Len(handled) : handled[k].body = sent[1].text
     /\ (stdin = <<>> => Len(handled) = 1)

\* C3: two requests with ids that arrive back-to-back in one chunk are
\* extracted by the same run of processBuffer, and answered in their order.
C3_OneChunkOneRun ==
  \A j \in 1..(Len(sent) - 1) :
    (/\ ~arrived.cut
     /\ j \notin arrived.ends
     /\ Len(sent) - Len(stdin) >= j + 1
     /\ \A p \in {j, j + 1} : IsRequest(JSONParse(sent[p].text))
                                /\ HasId(JSONParse(sent[p].text))) =>
       /\ Len(handled) >= j + 1 => handled[j + 1].after = j
       /\ \A a \in FramesOf(j + 1) : \E b \in FramesOf(j) : b < a

\* C4: a handled request with an id is answered by exactly one frame, once
\* its handling is complete and not before; the frame carries the id of the
\* request and exactly one of result and error.  Every frame answers a
\* request that was received.
C4_ExactlyOneFrame ==
  /\ \A k \in 1..Len(handled) :
       IF handled[k].state = "done" /\ IsRequest(Parsed(k)) /\ HasId(Parsed(k))
         THEN /\ Cardinality(FramesOf(k)) = 1
              /\ \A i \in FramesOf(k) :
                   /\ Get(stdout[i].response, Chars("id")) = Get(Parsed(k), Chars("id"))
                   /\ Present(stdout[i].response, "result")
                        # Present(stdout[i].response, "error")
                   /\ stdout[i].frame = Framed(JSONStringify(stdout[i].response))
         ELSE FramesOf(k) = {}
  /\ \A i \in 1..Len(stdout) : stdout[i].msg \in 1..Len(handled)

\* two drains are interleaved and both requests are answered, the later first
C4_Witness ==
  /\ Len(stdout) = 2
  /\ stdout[1].msg > stdout[2].msg
  /\ \A k \in 1..Len(handled) : handled[k].state = "done"

\* the tool named by a tools/call request, when it is registered
ToolOf(req) ==
  LET name == Get(Get(req, Chars("params")), Chars("name"))
  IN IF Get(req, Chars("method")) = Str(Chars("tools/call"))
        /\ name.t = "string" /\ name.v \in {ALL_TOOLS[i] : i \in 1..Len(ALL_TOOLS)}
       THEN name.v ELSE <<>>

\* C5: a request whose id is null or absent is never answered, yet it is
\* dispatched: for tools/call the handler runs, and the row add_note returns
\* is in storage.
C5_NotificationSilent ==
  /\ \A k \in 1..Len(handled) :
       (IsRequest(Parsed(k)) /\ ~HasId(Parsed(k))) =>
          /\ FramesOf(k) = {}
          /\ (handled[k].state = "done" /\ ToolOf(Parsed(k)) # <<>>) =>
                handled[k].outcome.kind \in {"return", "throw"}
          /\ (handled[k].outcome.kind = "return" /\ ToolOf(Parsed(k)) = Chars("add_note")) =>
                /\ handled[k].wrote
                /\ \E n \in 1..Len(db.editorial_notes) :
                     Get(db.editorial_notes[n], Chars("id"))
                       = Get(handled[k].outcome.value, Chars("id"))
  /\ (Len(sent) = 1 /\ IsRequest(JSONParse(sent[1].text))
        /\ ~HasId(JSONParse(sent[1].text))) => stdout = <<>>

\* add_note sent without an id has stored its note, and nothing was written
C5_Witness ==
  /\ Len(handled) = 1
  /\ handled[1].state = "done"
  /\ ~HasId(Parsed(1))
  /\ ToolOf(Parsed(1)) = Chars("add_note")
  /\ handled[1].outcome.kind = "return"
  /\ Len(db.editorial_notes) = 1
  /\ stdout = <<>>

\* s is a concatenation of pieces of the kinds processBuffer slices off the
\* buffer: a header up to its blank line and as many units as it announces,
\* or a line with its line feed
RECURSIVE Sliced(_)
Sliced(s) ==
  \/ s = <<>>
  \/ LET headerEnd == indexOf(s, CRLFCRLF)
         match == IF headerEnd # -1 THEN matchContentLength(slice(s, 0, headerEnd))
                  ELSE <<>>
         next == headerEnd + 4 + parseInt(match)
     IN match # <<>> /\ next <= Len(s) /\ Sliced(sliceFrom(s, next))
  \/ LET lineEnd == indexOf(s, LF)
     IN lineEnd # -1 /\ Sliced(sliceFrom(s, lineEnd + 1))

\* every delivered unit is in the buffer or was sliced off its front, once
Conserved == delivered = removed \o buffer /\ Sliced(removed)

\* all of the stream was delivered and no macrotask is left but the
\* completion of the requests that suspended handlers wait for
Quiescent == stdin = <<>> /\ ~running.active

\* the request written at position p of the stream was answered
Answered(p) ==
  \E k \in 1..Len(handled) : handled[k].body = sent[p].text /\ FramesOf(k) # {}

\* the handler of the request written at position p is suspended
Pending(p) ==
  \E i \in 1..Len(suspended) : handled[suspended[i].msg].body = sent[p].text

Malformed(p) == sent[p] # BlankLine /\ JSONParse(sent[p].text) = SyntaxError

\* C7: a body that is not JSON is dropped: no frame, no handler and no effect
\* on storage; the drain loop goes on, and every request with an id that
\* follows it in the stream is handled and answered once the stream was
\* delivered and no handler is suspended.
C7_MalformedSkipped ==
  /\ \A k \in 1..Len(handled) :
       Parsed(k) = SyntaxError =>
          /\ FramesOf(k) = {}
          /\ handled[k].outcome = NoOutcome
          /\ ~handled[k].wrote
  /\ (~running.active /\ suspended = <<>>) => processBuffer(buffer).kind = "return"
  /\ (Quiescent /\ suspended = <<>>) =>
        \A q \in 1..Len(sent), p \in 1..Len(sent) :
           (/\ q < p
            /\ Malformed(q)
            /\ IsRequest(JSONParse(sent[p].text))
            /\ HasId(JSONParse(sent[p].text))) => Answered(p)

\* the members of the error and of the result of a response
ErrorOf(response) == Get(response, Chars("error"))
ResultOf(response) == Get(response, Chars("result"))

\* err carries a code and a message
Coded(err) ==
  err.value.t = "object" /\ Has(err.value, Chars("code")) /\ Has(err.value, Chars("message"))

\* s occurs in text
Contains(text, s) == indexOf(text, s) # -1

\* text without its spaces and line feeds
Unspaced(text) == SelectSeq(text, LAMBDA c : c \notin {" ", "\n"})

\* C8: the response to a tools/call on a registered tool.  A thrown value
\* with a code and a message gives an error with that code and that message;
\* any other thrown value gives the error -32603 whose message contains the
\* message of the failure; neither has a result.  A returned value gives a
\* result whose content is a single text item, the JSON text of the value.
C8_ToolOutcome ==
  \A i \in 1..Len(stdout) :
    LET k == stdout[i].msg
        response == stdout[i].response
        o == handled[k].outcome
    IN (ToolOf(Parsed(k)) # <<>>) =>
         /\ o.kind \in {"return", "throw"}
         /\ o.kind = "throw" =>
              /\ ~Present(response, "result")
              /\ IF Coded(o.value)
                   THEN /\ Get(ErrorOf(response), Chars("code")) = Get(o.value.value, Chars("code"))
                        /\ Get(ErrorOf(response), Chars("message"))
                             = Get(o.value.value, Chars("message"))
                   ELSE /\ Get(ErrorOf(response), Chars("code")) = Num(-32603)
                        /\ Get(ErrorOf(response), Chars("message")).t = "string"
                        /\ Contains(Get(ErrorOf(response), Chars("message")).v,
                                    Get(o.value.value, Chars("message")).v)
         /\ o.kind = "return" =>
              /\ ~Present(response, "error")
              /\ LET content == Get(ResultOf(response), Chars("content"))
                 IN /\ content.t = "array"
                    /\ Len(content.v) = 1
                    /\ Get(content.v[1], Chars("type")) = Str(Chars("text"))
                    /\ Get(content.v[1], Chars("text")).t = "string"
                    /\ Unspaced(Get(content.v[1], Chars("text")).v)
                         = Unspaced(JSONStringify(o.value))

\* one call was answered after its handler returned, another after its
\* handler threw a value without a code
C8_Witness ==
  /\ \E i \in 1..Len(stdout) :
       /\ ToolOf(Parsed(stdout[i].msg)) # <<>>
       /\ handled[stdout[i].msg].outcome.kind = "return"
       /\ Present(stdout[i].response, "result")
  /\ \E i \in 1..Len(stdout) :
       /\ ToolOf(Parsed(stdout[i].msg)) # <<>>
       /\ handled[stdout[i].msg].outcome.kind = "throw"
       /\ ~Coded(handled[stdout[i].msg].outcome.value)
       /\ Get(ErrorOf(stdout[i].response), Chars("code")) = Num(-32603)

\* req is a tools/call request; the name it gives
IsToolsCall(req) == IsRequest(req) /\ Get(req, Chars("method")) = Str(Chars("tools/call"))
NameOf(req) == Get(Get(req, Chars("params")), Chars("name"))

\* the k-th call of handleMessage invoked no tool handler and left storage alone
NoHandler(k) == handled[k].outcome = NoOutcome /\ ~handled[k].wrote

\* the k-th call was answered by one frame, an error with this code and no result
ErrorOnly(k, code) ==
  /\ Cardinality(FramesOf(k)) = 1
  /\ \A i \in FramesOf(k) :
       /\ Get(ErrorOf(stdout[i].response), Chars("code")) = Num(code)
       /\ ~Present(stdout[i].response, "result")

C10_MissingName ==
  \A k \in 1..Len(handled) :
    (/\ handled[k].state = "done"
     /\ IsToolsCall(Parsed(k))
     /\ (\/ ~Present(Parsed(k), "params")
         \/ NameOf(Parsed(k)).t = "undefined"
         \/ NameOf(Parsed(k)) = Str(<<>>))) =>
       /\ NoHandler(k)
       /\ IF HasId(Parsed(k)) THEN ErrorOnly(k, -32602) ELSE FramesOf(k) = {}

\* a call whose name is the empty string was answered
C10_Witness ==
  /\ Len(handled) = 1
  /\ handled[1].state = "done"
  /\ IsToolsCall(Parsed(1))
  /\ NameOf(Parsed(1)) = Str(<<>>)
  /\ Len(stdout) = 1

(***************************************************************************)
(* SqliteAdapter.migrate, one SQL statement per step.  better-sqlite3 runs *)
(* outside a transaction unless told otherwise, so every statement of      *)
(* exec(migration.sql) and the INSERT into _migrations commits on its own; *)
(* the process may die between any two of them, and the next process runs  *)
(* migrate() again on the same file.  call holds the position of the run.  *)
(***************************************************************************)
UnappliedAlways(applied, i) == TRUE

\* if (applied.has(migration.name)) continue
Unapplied(applied, i) == MIGRATIONS[i].name \notin applied

RECURSIVE skip(_, _)
\* the first migration from i on that the loop does not skip
skip(applied, i) ==
  IF i > Len(MIGRATIONS) THEN i
  ELSE IF Unapplied(applied, i) THEN i
  ELSE skip(applied, i + 1)

RunOf(c) == IF c.op = "migrate" THEN c.run ELSE 0
InProgress(c) == c.op = "migrate" /\ c.pc \in {"select", "exec", "insert"}

\* the loop reaches migration i: it ends after the last one
At(c, i) == [c EXCEPT !.i = i, !.j = 0,
                      !.pc = IF i > Len(MIGRATIONS) THEN "done" ELSE "exec"]

\* migrate() is called: CREATE TABLE IF NOT EXISTS _migrations
Migrate ==
  /\ ~InProgress(call)
  /\ RunOf(call) < MaxRuns
  /\ schema' = [schema EXCEPT !.table = TRUE]
  /\ call' = [op |-> "migrate", run |-> RunOf(call) + 1, pc |-> "select", i |-> 0, j |-> 0,
              applied |-> {}, executed |-> 0, inserted |-> 0, start |-> schema]
  /\ UNCHANGED <<transport, db, proc>>

\* SELECT name FROM _migrations, then the loop skips the applied ones
SelectApplied ==
  /\ call.op = "migrate" /\ call.pc = "select"
  /\ \E applied \in {{schema.ledger[k] : k \in 1..Len(schema.ledger)}} :
       call' = At([call EXCEPT !.applied = applied], skip(applied, 1))
  /\ UNCHANGED <<transport, db, proc, schema>>

\* one statement of this.db.exec(migration.sql): CREATE ... IF NOT EXISTS
Exec ==
  /\ call.op = "migrate" /\ call.pc = "exec"
  /\ schema' = [schema EXCEPT !.objects = @ \cup {<<call.i, call.j + 1>>}]
  /\ call' = [call EXCEPT !.j = @ + 1, !.executed = @ + 1,
                          !.pc = IF call.j + 1 = MIGRATIONS[call.i].statements
                                   THEN "insert" ELSE "exec"]
  /\ UNCHANGED <<transport, db, proc>>

\* INSERT INTO _migrations (name) VALUES (?): name is the primary key
InsertLedger ==
  /\ call.op = "migrate" /\ call.pc = "insert"
  /\ IF \E k \in 1..Len(schema.ledger) : schema.ledger[k] = MIGRATIONS[call.i].name
       THEN /\ call' = [call EXCEPT !.pc = "threw"]
            /\ UNCHANGED schema
       ELSE /\ schema' = [schema EXCEPT !.ledger = Append(@, MIGRATIONS[call.i].name)]
            /\ call' = At([call EXCEPT !.inserted = @ + 1], skip(call.applied, call.i + 1))
  /\ UNCHANGED <<transport, db, proc>>

\* the process dies (power loss, kill) before the next statement
Crash ==
  /\ InProgress(call)
  /\ call' = [call EXCEPT !.pc = "crashed"]
  /\ UNCHANGED <<transport, db, proc, schema>>

InitMigrate ==
  /\ InitTransport(<<>>, OwnerCtx)
  /\ proc = Running
  /\ schema = Fresh
  /\ call = NoCall

NextMigrate == Migrate \/ SelectApplied \/ Exec \/ InsertLedger \/ Crash

SpecMigrate == InitMigrate /\ [][NextMigrate]_vars

(***************************************************************************)
(* save_source called through the exported handleJsonRpc by a client that  *)
(* does not wait for one call to end before it makes the next: the         *)
(* handlers run on one thread and take turns at their awaits.  call holds  *)
(* the calls made so far, each with its position.                          *)
(***************************************************************************)
Urls == {Chars("u"), Chars(" u "), Chars("v")}

SourceArgs(url) == Obj(<< <<Chars("url"), Str(url)>>, <<Chars("title"), Str(Chars("t"))>> >>)

Saves(c) == IF c.op = "save_source" THEN c.calls ELSE <<>>

\* the call as its handler leaves it at o
Position(c, o) ==
  [c EXCEPT !.pc = IF o.kind = "await" THEN o.pc ELSE o.kind,
            !.value = o.value,
            !.inserted = @ \/ (o.db # db)]

\* tools/call save_source: the handler runs up to its first await
SaveSource(url) ==
  /\ Len(Saves(call)) < MaxSaves
  /\ \E o \in {save_source(SourceArgs(url), ctx, db)} :
       /\ call' = [op |-> "save_source",
                   calls |-> Append(Saves(call),
                               Position([url |-> url, before |-> db[Sources], pc |-> "called",
                                         value |-> Undefined, inserted |-> FALSE], o))]
       /\ db' = o.db
  /\ UNCHANGED <<transport, proc, schema>>

\* the handler of the n-th call continues after its await
SaveSourceResume(n) ==
  /\ n \in 1..Len(Saves(call))
  /\ call.calls[n].pc \in {"existing", "source"}
  /\ \E bytes \in RandomBytes :
       \E o \in {save_source_resume(call.calls[n].pc, SourceArgs(call.calls[n].url),
                                      call.calls[n].value, db, bytes)} :
         /\ call' = [call EXCEPT !.calls[n] = Position(@, o)]
         /\ db' = o.db
  /\ UNCHANGED <<transport, proc, schema>>

InitSources == InitWith(<<>>, OwnerCtx)

NextSources ==
  \/ \E url \in Urls : SaveSource(url)
  \/ \E n \in 1..MaxSaves : SaveSourceResume(n)

SpecSources == InitSources /\ [][NextSources]_vars

(***************************************************************************)
(* clear_notes called by the owner on a table of notes.  call records the  *)
(* arguments, the notes held before the call and what the handler did.     *)
(***************************************************************************)
\* the notes the table is filled with
StoredNotes ==
  { Obj(<< <<Chars("id"), SomeId>>, <<Chars("type"), Idea>>,
           <<Chars("content"), Str(Chars("c"))>>, <<Chars("status"), Str(Chars("used"))>> >>),
    Obj(<< <<Chars("type"), Idea>>, <<Chars("content"), Str(Chars("c"))>>,
           <<Chars("status"), Str(Chars("used"))>> >>),
    Obj(<< <<Chars("type"), Idea>>, <<Chars("content"), Str(Chars("c"))>> >>) }

\* an arguments object with the members that are given (not undefined)
Args(members) == Obj(SelectSeq(members, LAMBDA m : m[2].t # "undefined"))

ClearArgs ==
  { Args(<< <<Chars("id"), id>>, <<Chars("target_article"), target>>,
            <<Chars("status"), status>>, <<Chars("confirm"), confirm>> >>) :
      id \in {Undefined, SomeId},
      target \in {Undefined, Str(Chars("a1"))},
      status \in {Undefined, Str(Chars("used"))},
      confirm \in {Undefined, Bool(FALSE), Bool(TRUE), Str(Chars("false"))} }

StoreNote(data, bytes) ==
  /\ Len(db[Notes]) < MaxRows
  /\ \E r \in {insert(db, Notes, data, bytes)} :
       /\ r.ok
       /\ db' = r.db
       /\ call' = NoCall
  /\ UNCHANGED <<transport, proc, schema>>

ClearNotes(args) ==
  /\ \E o \in {clear_notes(args, ctx, db)} :
       /\ call' = [op |-> "clear_notes", args |-> args, before |-> db[Notes],
                   outcome |-> OutcomeOf(o)]
       /\ db' = o.db
  /\ UNCHANGED <<transport, proc, schema>>

InitNotes == InitWith(<<>>, OwnerCtx)

NextNotes ==
  \/ \E data \in StoredNotes, bytes \in RandomBytes : StoreNote(data, bytes)
  \/ \E args \in ClearArgs : ClearNotes(args)

SpecNotes == InitNotes /\ [][NextNotes]_vars

(***************************************************************************)
(* Properties of the storage adapter (SpecStore)                           *)
(***************************************************************************)
\* the filter is an `in` filter whose value list is empty
EmptyIn(f) == f.op = "in" /\ f.value = Arr(<<>>)

HasEmptyIn(filters) == \E i \in 1..Len(filters) : EmptyIn(filters[i])

\* the row satisfies every filter of the list; no row satisfies an `in`
\* filter whose list is empty
Matches(filters, row) == ~HasEmptyIn(filters) /\ Selected(buildWhere(filters), row)

\* C11: a query whose filter list contains an `in` filter with an empty
\* value list returns no rows, whatever the table holds and whatever the
\* other filters are, also when it is the only filter.
C11_EmptyInMatchesNothing ==
  (call.op = "query" /\ HasEmptyIn(call.filters))
    => (call.result.ok /\ call.result.value = Arr(<<>>))

\* the value of the field k of the row
Field(row, k) == Get(row, k)

\* C12: after insert of a row without an id, queryOne filtered by the id
\* that insert returned yields a row equal to the inserted one on every
\* provided field, and carrying the defaults of the unnamed columns.
C12_RoundTrip ==
  (/\ call.op = "queryOne"
   /\ call.inserted # NoInsert
   /\ ~Has(call.inserted.data, Chars("id"))
   /\ call.filters = ById(call.inserted.row))
    => /\ call.result.ok
       /\ call.result.value.t = "object"
       /\ \A i \in 1..Len(call.inserted.data.v) :
            Field(call.result.value, call.inserted.data.v[i][1]) = call.inserted.data.v[i][2]
       /\ \A c \in {Chars("status"), Chars("created_at"), Chars("updated_at")} :
            Field(call.result.value, c) = ColumnDefault(Notes, c)

\* the text is 32 lowercase hexadecimal digits
IsHexId(v) ==
  /\ v.t = "string"
  /\ Len(v.v) = 32
  /\ \A i \in 1..Len(v.v) : \E d \in 1..16 : HexDigit[d] = v.v[i]

\* C13: every stored row has a non-null id after any calls of insert,
\* update and delete; insert generates a 32-digit lowercase hex id exactly
\* when the row it is given has no id, stores a provided id unchanged, and
\* returns the row with that id.
C13_IdNeverNull ==
  /\ \A i \in 1..Len(db[Notes]) : Field(db[Notes][i], Chars("id")).t \notin {"null", "undefined"}
  /\ (call.op = "insert" /\ call.result.ok)
       => /\ call.result.value \in {db[Notes][i] : i \in 1..Len(db[Notes])}
          /\ IF Has(call.data, Chars("id"))
               THEN Field(call.result.value, Chars("id")) = Field(call.data, Chars("id"))
               ELSE IsHexId(Field(call.result.value, Chars("id")))

\* C14: an update whose filter list matches no stored row returns the
\* empty list, throws nothing and leaves every stored row as it was,
\* whatever the patch.
C14_UpdateNoMatch ==
  (call.op = "update" /\ \A i \in 1..Len(call.before) : ~Matches(call.filters, call.before[i]))
    => /\ call.result.ok
       /\ call.result.value = Arr(<<>>)
       /\ db[Notes] = call.before

(***************************************************************************)
(* Properties of migrate (SpecMigrate)                                     *)
(***************************************************************************)
Names(ledger) == {ledger[k] : k \in 1..Len(ledger)}

\* C15: migrate() is idempotent.  A run that starts on a store where a run
\* completed executes no script statement, inserts no ledger row and
\* leaves the ledger (and the schema) as it found it; in every state each
\* migration name is in the ledger at most once, and the ledger lists the
\* migrations in declaration order.
C15_MigrateIdempotent ==
  /\ (call.op = "migrate" /\ call.start = Migrated)
       => (call.executed = 0 /\ call.inserted = 0 /\ schema = Migrated /\ call.pc # "threw")
  /\ \A a, b \in 1..Len(schema.ledger) : schema.ledger[a] = schema.ledger[b] => a = b
  /\ Len(schema.ledger) <= Len(MIGRATIONS)
  /\ \A k \in 1..Len(schema.ledger) : schema.ledger[k] = MIGRATIONS[k].name

\* a second run has returned on a store that the first run migrated
C15_Witness ==
  /\ call.op = "migrate" /\ call.run = 2 /\ call.pc = "done"
  /\ call.start = Migrated

\* migration i is applied and recorded, or not applied and not recorded
Atomic(i) ==
  \/ ScriptObjects(i) \subseteq schema.objects /\ MIGRATIONS[i].name \in Names(schema.ledger)
  \/ ScriptObjects(i) \cap schema.objects = {} /\ MIGRATIONS[i].name \notin Names(schema.ledger)

\* C16: whenever no run of migrate() is under way (it returned, or the
\* process died at any point of it), each migration is either applied in
\* full and in the ledger, or not applied at all and not in the ledger.
C16_AtomicMigration ==
  ~InProgress(call) => \A i \in 1..Len(MIGRATIONS) : Atomic(i)

(***************************************************************************)
(* Properties of shutdown (SpecShutdown)                                   *)
(***************************************************************************)
\* C17: on SIGINT or SIGTERM the storage handle is closed before the
\* process exits, and once the signal is handled no response frame is
\* written for a request in flight and no storage operation runs on the
\* closed handle: the server takes no further step.
C17_Shutdown ==
  /\ [](proc.exited => proc.closed)
  /\ [][proc.closed => UNCHANGED <<buffer, running, suspended, stdout, db, handled>>]_vars

\* the signal was handled while a request was waiting for its connector
C17_Witness ==
  /\ proc.closed /\ proc.exited
  /\ suspended # <<>>
  /\ stdin = <<>>

(***************************************************************************)
(* Properties of authentication (SpecAuth)                                 *)
(***************************************************************************)
\* the secret is given and is not the empty string
PresentSecret(k) == k.t = "string" /\ Len(k.v) > 0

\* C18: resolveAuth returns role owner when auth is disabled, whatever the
\* secrets; when auth is enabled it returns owner if and only if both
\* secrets are present and exactly equal, and public in every other case.
C18_ResolveAuth ==
  call.op = "resolveAuth"
    => /\ ctx \in {OwnerCtx, PublicCtx}
       /\ ~call.authEnabled => ctx = OwnerCtx
       /\ call.authEnabled =>
            (ctx = OwnerCtx <=> /\ PresentSecret(call.ownerKey)
                                /\ PresentSecret(call.providedKey)
                                /\ call.ownerKey.v = call.providedKey.v)

\* auth is enabled and owner was granted for a matching secret; the cases
\* of an absent and of an empty secret are reached as well
C18_Witness ==
  /\ call.op = "resolveAuth" /\ call.authEnabled
  /\ call.ownerKey = Str(Chars("ab")) /\ call.providedKey = Str(Chars("ab"))
  /\ ctx = OwnerCtx

(***************************************************************************)
(* Properties of authorization (SpecOwner)                                 *)
(***************************************************************************)
\* the tools documented as owner-only
DocumentedOwnerOnly ==
  {Chars("save_source"), Chars("list_sources"), Chars("deactivate_source"),
   Chars("mark_source_used"), Chars("add_note"), Chars("list_notes"), Chars("update_note"),
   Chars("clear_notes"), Chars("prepare_brief"), Chars("get_stats"),
   Chars("import_newsletter"), Chars("draft_article"), Chars("list_voice_templates")}

\* the k-th call of handleMessage is a tools/call of an owner-only tool
OwnerOnlyCall(k) ==
  /\ IsToolsCall(Parsed(k))
  /\ NameOf(Parsed(k)).t = "string"
  /\ NameOf(Parsed(k)).v \in DocumentedOwnerOnly

\* C19: a tools/call of a tool documented as owner-only, made with a
\* context of role public or with no context, ends at once with the error
\* 403: the handler throws it before any storage call, is never suspended,
\* the store is as it was, and a request with an id is answered by one
\* frame carrying the error 403 and no result.
C19_OwnerOnly ==
  ctx # OwnerCtx =>
    \A k \in 1..Len(handled) :
      (OwnerOnlyCall(k) /\ handled[k].state # "called") =>
         /\ handled[k].state = "done"
         /\ handled[k].outcome = OutcomeOf(Throw(Forbidden, db))
         /\ ~handled[k].wrote
         /\ db = EmptyDb
         /\ suspended = <<>>
         /\ IF HasId(Parsed(k)) THEN ErrorOnly(k, 403) ELSE FramesOf(k) = {}

\* a public caller's get_stats with an id was refused
C19_Witness ==
  /\ ctx = PublicCtx
  /\ Len(handled) = 1 /\ handled[1].state = "done"
  /\ OwnerOnlyCall(1) /\ NameOf(Parsed(1)) = Str(Chars("get_stats"))
  /\ ErrorOnly(1, 403)

(***************************************************************************)
(* Properties of the frames written (Spec)                                 *)
(***************************************************************************)
\* the number of bytes of the UTF-8 encoding of the text
EncodedSize(text) ==
  Len(text) + Cardinality({i \in 1..Len(text) : text[i] = "é"})
            + 2 * Cardinality({i \in 1..Len(text) : text[i] = "€"})

\* frame is "Content-Length: L", a blank line and text, L being the decimal
\* number of bytes of text
WellFramed(frame, text) ==
  LET headerEnd == indexOf(frame, CRLFCRLF)
      name == Len(ContentLengthHeader)
      digits == slice(frame, name, headerEnd)
  IN /\ headerEnd > name
     /\ slice(frame, 0, name) = ContentLengthHeader
     /\ \A i \in 1..Len(digits) : digits[i] \in Digit
     /\ digits[1] # "0"
     /\ sliceFrom(frame, headerEnd + 4) = text
     /\ parseInt(digits) = EncodedSize(text)

\* C20: every frame written to stdout is the header Content-Length: L, a
\* blank line and the JSON text of one response, L being the number of
\* bytes of that text in UTF-8, not its number of characters, also when
\* the response holds characters of several bytes.
C20_ContentLength ==
  \A i \in 1..Len(stdout) :
    WellFramed(stdout[i].frame, JSONStringify(stdout[i].response))

\* a response was written whose text has more bytes than characters
C20_Witness ==
  \E i \in 1..Len(stdout) :
    /\ Contains(stdout[i].frame, <<"c", "a", "f", "é", "€">>)
    /\ EncodedSize(JSONStringify(stdout[i].response)) = Len(JSONStringify(stdout[i].response)) + 3

(***************************************************************************)
(* Properties of save_source (SpecSources)                                 *)
(***************************************************************************)
\* the stored sources whose url is the trimmed url
StoredAs(rows, url) ==
  {i \in 1..Len(rows) : Get(rows[i], Chars("url")) = Str(trim(url))}

\* C21: after any calls of save_source, overlapping ones included, the
\* table editorial_sources holds at most one row per trimmed URL; a call
\* for a URL that was stored when it was made inserts no row and returns
\* duplicate: true with the id of the stored row.
C21_OneRowPerUrl ==
  /\ \A url \in Urls : Cardinality(StoredAs(db[Sources], url)) <= 1
  /\ \A n \in 1..Len(Saves(call)) :
       LET c == call.calls[n]
       IN (StoredAs(c.before, c.url) # {} /\ c.pc \in {"return", "throw"}) =>
            /\ c.pc = "return"
            /\ ~c.inserted
            /\ Get(c.value, Chars("duplicate")) = Bool(TRUE)
            /\ \E i \in StoredAs(c.before, c.url) :
                 Get(c.value, Chars("existing_id")) = Get(c.before[i], Chars("id"))

(***************************************************************************)
(* Properties of clear_notes (SpecNotes)                                   *)
(***************************************************************************)
\* the note is one that the target_article and status arguments name
Named(args, note) ==
  /\ Has(args, Chars("target_article"))
       => Get(note, Chars("target_article")) = Get(args, Chars("target_article"))
  /\ Has(args, Chars("status")) => Get(note, Chars("status")) = Get(args, Chars("status"))

\* C22: clear_notes called without an id deletes notes only when confirm
\* is true; without confirm it returns a preview with the number of
\* matching notes and leaves the store unchanged; called with none of id,
\* target_article and status it fails with code 400 and deletes nothing.
C22_ConfirmedBatch ==
  (call.op = "clear_notes" /\ ~Has(call.args, Chars("id"))) =>
    LET given == Has(call.args, Chars("target_article")) \/ Has(call.args, Chars("status"))
        confirmed == Get(call.args, Chars("confirm")) = Bool(TRUE)
    IN /\ db[Notes] # call.before => confirmed
       /\ (given /\ ~confirmed) =>
            /\ call.outcome.kind = "return"
            /\ Get(call.outcome.value, Chars("preview")) = Bool(TRUE)
            /\ Get(call.outcome.value, Chars("count"))
                 = Num(Len(SelectSeq(call.before, LAMBDA note : Named(call.args, note))))
            /\ db[Notes] = call.before
       /\ ~given =>
            /\ call.outcome.kind = "throw"
            /\ Get(call.outcome.value.value, Chars("code")) = Num(400)
            /\ db[Notes] = call.before
(***************************************************************************)
(* list_articles over a table that is filled article by article            *)
(* (SpecArticles)                                                          *)
(***************************************************************************)
Articles == "articles"

\* the n-th article stored: every second one is published
Article(n) ==
  Obj(<< <<Chars("id"), Str(Chars("a") \o numberText(n))>>,
         <<Chars("title"), Str(Chars("t"))>>,
         <<Chars("status"), Str(IF n % 2 = 0 THEN Chars("published") ELSE Chars("draft"))>> >>)

ListArgs ==
  { Args(<< <<Chars("limit"), limit>>, <<Chars("offset"), offset>>,
            <<Chars("status"), status>> >>) :
      limit \in {Undefined, Null, Num(0 - 1), Num(0), Num(1), Num(51)},
      offset \in {Undefined, Num(1)},
      status \in {Undefined, Str(Chars("published"))} }

StoreArticle ==
  /\ Len(db[Articles]) < MaxArticles
  /\ \E r \in {insert(db, Articles, Article(Len(db[Articles]) + 1), RandomBytes[1])} :
       /\ r.ok
       /\ db' = r.db
       /\ call' = NoCall
  /\ UNCHANGED <<transport, proc, schema>>

ListArticles(args) ==
  /\ \E o \in {list_articles(args, ctx, db)} :
       /\ call' = [op |-> "list_articles", args |-> args, outcome |-> OutcomeOf(o)]
       /\ db' = o.db
  /\ UNCHANGED <<transport, proc, schema>>

InitArticles == InitWith(<<>>, PublicCtx)

NextArticles ==
  \/ StoreArticle
  \/ \E args \in ListArgs : ListArticles(args)

SpecArticles == InitArticles /\ [][NextArticles]_vars

\* C23: list_articles returns at most 50 articles, and at most 20 when no
\* limit is given, for every value of the limit argument (values below 1
\* included) and every table content.
C23_ListLimit ==
  (call.op = "list_articles" /\ call.outcome.kind = "return") =>
    /\ Len(Get(call.outcome.value, Chars("articles")).v) <= 50
    /\ ~Has(call.args, Chars("limit"))
         => Len(Get(call.outcome.value, Chars("articles")).v) <= 20
(***************************************************************************)
(* get_stats over articles with stored open rates (SpecStats)              *)
(***************************************************************************)
\* open rates as a connector may deliver them, in thousandths: 12.345,
\* 12.35, 0.25, 0 and -0.25 (the column has no CHECK and the connector's
\* number is stored as it comes)
Rates == {12345, 12350, 250, 0, 0 - 250}

RatedArticle(status, rate) ==
  Obj(<< <<Chars("title"), Str(Chars("t"))>>, <<Chars("status"), Str(Chars(status))>>,
         <<Chars("open_rate"), Num(rate)>> >>)

StoreRated(status, rate, bytes) ==
  /\ Len(db[Articles]) < MaxRows
  /\ \E r \in {insert(db, Articles, RatedArticle(status, rate), bytes)} :
       /\ r.ok
       /\ db' = r.db
       /\ call' = NoCall
  /\ UNCHANGED <<transport, proc, schema>>

GetStats ==
  /\ \E o \in {get_stats(Obj(<<>>), ctx, db)} :
       /\ call' = [op |-> "get_stats", outcome |-> OutcomeOf(o)]
       /\ db' = o.db
  /\ UNCHANGED <<transport, proc, schema>>

InitStats == InitWith(<<>>, OwnerCtx)

NextStats ==
  \/ \E status \in {"published", "draft"}, rate \in Rates, bytes \in RandomBytes :
       StoreRated(status, rate, bytes)
  \/ GetStats

SpecStats == InitStats /\ [][NextStats]_vars

\* the published articles of the table
Published == SelectSeq(db[Articles], LAMBDA a : Get(a, Chars("status")) = Str(Chars("published")))

DrainsInProgress == Len(suspended) + (IF running.active THEN 1 ELSE 0)

\* C25: at every moment at most one drain of the buffer is in progress: no
\* processBuffer run is started, and handleMessage is not entered, while a
\* previous run is suspended in an unfinished handleMessage call.
C25_SingleDrain == DrainsInProgress <= 1
(***************************************************************************)
(* Length-prefixed frames with bodies of one-byte and of multi-byte        *)
(* characters (SpecFrames)                                                 *)
(***************************************************************************)
\* the bodies a client frames: a call whose text has characters of two and
\* three bytes, and a ping
FrameTexts(pos) == {JSONStringify(AccentCall), MultiText("ping", pos)}

\* a stream of one or two frames whose Content-Length counts encoded bytes
InitFrames ==
  \E n \in 1..MaxMsgs : \E texts \in [1..n -> FrameTexts(1) \cup FrameTexts(2)] :
     /\ \A p \in 1..n : texts[p] \in FrameTexts(p)
     /\ InitWith([p \in 1..n |-> Sent("header", texts[p])], OwnerCtx)

\* the sizes of a chunk that holds the header of the next frame, its blank
\* line and at most MaxChunk units of its body
SplitSizes(frames) ==
  IF frames = <<>> \/ indexOf(frames[1], CRLFCRLF) = -1 THEN {}
  ELSE {k \in 1..Len(frames[1]) :
          \E j \in 0..MaxChunk : k = indexOf(frames[1], CRLFCRLF) + 4 + j}

\* process.stdin.on('data') for a chunk that ends inside the body of a frame
DataSplit(k) ==
  /\ ~running.active
  /\ k \in SplitSizes(stdin)
  /\ LET chunk == SubSeq(Flat(stdin), 1, k)
         whole == k \in FrameEnds(stdin)
     IN /\ stdin' = Drop(stdin, k)
        /\ delivered' = delivered \o chunk
        /\ arrived' = [cut |-> arrived.cut \/ ~whole,
                       ends |-> IF whole
                                  THEN arrived.ends \cup {Len(sent) - Len(stdin')}
                                  ELSE arrived.ends]
        /\ Drain(buffer \o chunk, handled, 0)
  /\ UNCHANGED <<suspended, stdout, db, ctx, sent, proc, schema, call>>

\* no handler of these requests suspends
NextFrames ==
  \/ \E k \in ChunkSizes(stdin, Len(buffer), Len(sent) = 1) : Data(k)
  \/ \E k \in SplitSizes(stdin) : DataSplit(k)
  \/ HandleMessage

SpecFrames == InitFrames /\ [][NextFrames]_vars

\* C26: the body handed to handleMessage for a frame that declares
\* Content-Length N is exactly the N bytes after the blank line, also when
\* the body has multi-byte characters, and the frame, no more and no less,
\* is removed from the buffer: the k-th call receives the body of the k-th
\* frame, and what was removed is the first frames of the stream, whole.
C26_ExactBody ==
  /\ Len(handled) <= Len(sent)
  /\ \A k \in 1..Len(handled) : k <= Len(sent) => handled[k].body = sent[k].text
  /\ Len(handled) <= Len(sent)
       => removed = Flat([k \in 1..Len(handled) |-> Wire(sent[k])])
\* s starts with a header up to its blank line that gives Content-Length N,
\* followed by fewer than N units
IncompleteFrame(s) ==
  LET headerEnd == indexOf(s, CRLFCRLF)
      match == IF headerEnd # -1 THEN matchContentLength(slice(s, 0, headerEnd)) ELSE <<>>
  IN /\ headerEnd # -1
     /\ match # <<>>
     /\ Len(s) - (headerEnd + 4) < parseInt(match)

\* the buffer that the drain pass of a step finds: what was delivered by the
\* end of the step and not removed before it
Found == SubSeq(delivered', Len(removed) + 1, Len(delivered'))

\* C27: a drain pass that finds in the buffer a blank-line-terminated header
\* with Content-Length N and fewer than N units after it ends with the
\* buffer as it found it and without a call of handleMessage; the line
\* fallback is not applied to the header or the partial body.
C27_IncompleteWaits ==
  [][IncompleteFrame(Found)
       => /\ buffer' = Found
          /\ removed' = removed
          /\ Len(handled') = Len(handled)
          /\ ~running'.active]_vars

\* a chunk was delivered that leaves a header with a part of its body in
\* the buffer, after a frame was extracted whole
C27_Witness ==
  /\ IncompleteFrame(buffer)
  /\ Len(buffer) > indexOf(buffer, CRLFCRLF) + 4
  /\ ~running.active
  /\ Len(handled) = 1
  /\ stdin # <<>>
(***************************************************************************)
(* Line-delimited streams (SpecLines)                                      *)
(***************************************************************************)
LineKinds == {"ping", "import", "blank"}

\* the line at position pos of a stream: lines at odd positions are written
\* between spaces and end with CR LF, the others end with LF alone
Line(kind, pos) ==
  Sent(IF pos % 2 = 1 THEN "padded" ELSE "line",
       IF kind = "blank" THEN <<>> ELSE MultiText(kind, pos))

InitLines ==
  \E n \in 1..MaxMsgs : \E kinds \in [1..n -> LineKinds] :
     InitWith([p \in 1..n |-> Line(kinds[p], p)], OwnerCtx)

SpecLines == InitLines /\ [][Next]_vars

\* the non-empty lines of the stream, trimmed, in stream order
Lines == SelectSeq([p \in 1..Len(sent) |-> sent[p].text], LAMBDA text : text # <<>>)

\* the delivered text after its last newline
RECURSIVE Unterminated(_)
Unterminated(text) ==
  IF text = <<>> \/ text[Len(text)] = "\n" THEN <<>>
  ELSE Append(Unterminated(SubSeq(text, 1, Len(text) - 1)), text[Len(text)])

\* C28: in a stream of newline-terminated lines without Content-Length
\* header, the calls of handleMessage receive the non-empty lines, trimmed,
\* each once and in stream order, whatever the chunks; empty and
\* whitespace-only lines cause no call and no output; the text after the
\* last newline stays in the buffer; and when the stream has been read and
\* no call is unfinished, every non-empty line was handed over.
C28_LineDelimited ==
  /\ Len(handled) <= Len(Lines)
  /\ \A k \in 1..Len(handled) : k <= Len(Lines) => handled[k].body = Lines[k]
  /\ \A i \in 1..Len(stdout) : stdout[i].msg \in 1..Len(handled)
  /\ delivered = removed \o buffer
  /\ Unterminated(buffer) = Unterminated(delivered)
  /\ DrainsInProgress = 0 => buffer = Unterminated(delivered)
  /\ (stdin = <<>> /\ DrainsInProgress = 0) => Len(handled) = Len(Lines)

\* a line written between spaces was handed over trimmed and its call has
\* finished, and the first units of the next line wait in the buffer
C28_Witness ==
  /\ Len(sent) = 2
  /\ sent[1].framing = "padded" /\ sent[1].text # <<>>
  /\ Len(handled) = 1 /\ handled[1].state = "done"
  /\ buffer # <<>> /\ buffer = Unterminated(delivered)
  /\ DrainsInProgress = 0
(***************************************************************************)
(* The compiled WHERE clause (SpecStore)                                   *)
(***************************************************************************)
\* C29: for every non-empty filter list given to query, update or delete
\* the compiled WHERE clause has exactly one predicate per filter, in list
\* order; it is never the keyword WHERE with no predicate after it; and a
\* row that query or delete returns satisfies every filter of the list.
C29_OnePredicatePerFilter ==
  (call.op \in {"query", "update", "delete"} /\ Len(call.filters) > 0) =>
    LET where == buildWhere(call.filters)
    IN /\ Len(where.clauses) = Len(call.filters)
       /\ \A i \in 1..Len(where.clauses) : where.clauses[i].column = call.filters[i].column
       /\ ~Incomplete(where)
       /\ (call.op \in {"query", "delete"} /\ call.result.ok) =>
            \A i \in 1..Len(call.result.value.v) :
               Matches(call.filters, call.result.value.v[i])
(***************************************************************************)
(* The SQL text and the bound values of two calls that differ in their     *)
(* values only (SpecSql)                                                   *)
(***************************************************************************)
\* the forms of a filter: its operator and, for `is`, whether the value is
\* null; an `in` filter has a list of two values
FilterForms == {"eq", "neq", "null", "is", "in"}

\* the values that callers put in filters and patches
Values == <<Str(Chars("a")), Str(Chars("b' OR 1=1 --?")), Bool(TRUE)>>

\* the j-th value of the i-th filter or patch column under the choice v
ValueAt(v, i, j) == Values[((v + i + j) % Len(Values)) + 1]

\* the filter list of the given forms over the first columns of the table,
\* with the values of the choice v
FiltersOf(forms, v) ==
  [i \in 1..Len(forms) |->
     LET column == Columns[Notes][i]
     IN CASE forms[i] = "eq" -> Filter(column, "eq", ValueAt(v, i, 1))
          [] forms[i] = "neq" -> Filter(column, "neq", ValueAt(v, i, 1))
          [] forms[i] = "null" -> Filter(column, "is", Null)
          [] forms[i] = "is" -> Filter(column, "is", ValueAt(v, i, 1))
          [] forms[i] = "in" -> Filter(column, "in", Arr(<<ValueAt(v, i, 1), ValueAt(v, i, 2)>>))]

\* the patch of n columns with the values of the choice v
PatchOf(n, v) == Obj([i \in 1..n |-> <<Columns[Notes][i + 1], ValueAt(v, i, 0)>>])

\* one call of the adapter with its statement
Compiled(op, filters, data) ==
  [filters |-> filters, data |-> data,
   statement |-> statement(op, Chars(Notes), filters, data)]

\* two calls of the same operation whose filters and patch have the same
\* form and the values of two choices (one pair of calls in a behaviour:
\* the statement of a call does not depend on the calls before it)
Compile(op, forms, n, v, w) ==
  /\ call = NoCall
  /\ call' = [op |-> "statement", method |-> op,
              one |-> Compiled(op, FiltersOf(forms, v), PatchOf(n, v)),
              other |-> Compiled(op, FiltersOf(forms, w), PatchOf(n, w))]
  /\ UNCHANGED <<transport, db, proc, schema>>

InitSql == InitWith(<<>>, OwnerCtx)

NextSql ==
  \E op \in {"query", "update", "delete", "count"}, len \in 0..MaxFilters,
     v \in 1..Len(Values), w \in 1..Len(Values) :
    \E forms \in [1..len -> FilterForms], n \in 0..MaxFilters :
      /\ (op # "update" => n = 0)
      /\ Compile(op, forms, n, v, w)

SpecSql == InitSql /\ [][NextSql]_vars

\* the number of placeholders in an SQL text
Placeholders(sql) == Cardinality({i \in 1..Len(sql) : sql[i] = "?"})

\* the values of a call in the order in which its statement names them:
\* those of the patch, then those of the filters (none for IS NULL)
ValuesOf(c) ==
  [i \in 1..Len(c.data.v) |-> serializeValue(c.data.v[i][2])]
  \o Join([i \in 1..Len(c.filters) |->
             CASE c.filters[i].op = "in" -> c.filters[i].value.v
               [] c.filters[i].op = "is" ->
                    IF c.filters[i].value = Null THEN <<>> ELSE <<c.filters[i].value>>
               [] OTHER -> <<serializeValue(c.filters[i].value)>>], <<>>)

\* C30: in query, update, delete and count no filter value and no patch
\* value becomes part of the SQL text: two calls that differ in those values
\* only compile to the same text, the text has one placeholder per bound
\* value, and the parameters are the values in the order of their
\* placeholders, those of SET before those of WHERE.
C30_ValuesBound ==
  call.op = "statement" =>
    /\ call.one.statement.sql = call.other.statement.sql
    /\ \A c \in {call.one, call.other} :
         /\ Placeholders(c.statement.sql) = Len(c.statement.params)
         /\ c.statement.params = ValuesOf(c)

\* an update whose patch and filters carry different values in the two
\* calls, one of them a text with a quote and a question mark
C30_Witness ==
  /\ call.op = "statement" /\ call.method = "update"
  /\ Len(call.one.filters) = MaxFilters /\ Len(call.one.data.v) > 0
  /\ call.one.filters[1].op = "eq"
  /\ call.one.filters[1].value = Values[2]
  /\ call.other.filters[1].value # Values[2]
  /\ call.one.statement.params # call.other.statement.params
====
